---- MODULE Spec2Model ----
(***************************************************************************)
(* Action-log layer, task spawning and Kafka consumer dispatch of the      *)
(* framework crate (src/lib/framework).                                    *)
(*                                                                         *)
(* Option<T> is a sequence of length 0 (None) or 1 (Some).  An IndexMap is *)
(* a sequence of [k, v] entries in insertion order.  Text is a sequence of *)
(* characters.                                                             *)
(***************************************************************************)
EXTENDS Integers, Sequences, FiniteSets, TLC

\* ---------------------------------------------------------------- bounds
MaxTasks == 2
MaxSpans == 2
MaxEvents == 2
MaxTime == 2

\* the width in bits of a stats counter (u128), scaled down
U128Bits == 5

\* ErrorVisitor::record_debug keeps at most this many bytes of the message
\* (200 in the source, scaled down)
MaxErrorMessage == 4

\* ------------------------------------------------------------- constants

None == <<>>
Some(x) == <<x>>
IsSome(o) == Len(o) = 1
Unwrap(o) == o[1]

NoSpan == 0

\* a character whose UTF-8 encoding takes two bytes; the others take one
Wide == "U+00E9"

Utf8Width(c) == IF c = Wide THEN 2 ELSE 1

\* str::len: the length of the text in bytes
\* the bytes the first k characters of the text take
BytesUpTo(text, k) == k + Cardinality({i \in 1..k : Utf8Width(text[i]) = 2})

ByteLen(text) == BytesUpTo(text, Len(text))

\* the number of leading characters that end exactly at byte n, or -1 when
\* byte n is inside a character (is_char_boundary(n) is false)
CharsAtByte(text, n) ==
    LET ends == {k \in 0..Len(text) : BytesUpTo(text, k) = n}
    IN IF ends = {} THEN -1 ELSE CHOOSE k \in ends : TRUE

\* u128 arithmetic
U128Modulus == 2 ^ U128Bits

\* `value as u128`: an integer is sign-extended and wraps, a float is
\* truncated towards zero and saturates; a float is a pair <<n, d>> for n/d
AsU128(f) ==
    IF f.type = "f64"
    THEN IF f.value[1] < 0 THEN 0
         ELSE IF f.value[1] \div f.value[2] >= U128Modulus THEN U128Modulus - 1
         ELSE f.value[1] \div f.value[2]
    ELSE f.value % U128Modulus

IsNumeric(f) == f.type \in {"i64", "u64", "i128", "u128", "f64"}

\* a + b in u128, as a build without overflow checks computes it
U128Add(a, b) == (a + b) % U128Modulus

U128Overflows(a, b) == a + b >= U128Modulus

\* message texts
Boom == <<"b", "o", "o", "m">>
Bang == <<"b", "a", "n", "g">>
ContextText == <<"c", "o", "n", "t", "e", "x", "t">>
StatsText == <<"s", "t", "a", "t", "s">>

\* ------------------------------------------------------------- log.rs
\* ActionResult::level
ResultLevel(r) ==
    CASE r = "OK" -> 0
      [] r = "WARN" -> 1
      [] r = "ERROR" -> 2

\* tracing::Level orders by verbosity: ERROR < WARN < INFO < DEBUG < TRACE
LevelOrd(l) ==
    CASE l = "ERROR" -> 1
      [] l = "WARN" -> 2
      [] l = "INFO" -> 3
      [] l = "DEBUG" -> 4
      [] l = "TRACE" -> 5

\* The event log_exception emits for an Exception e (the log_event! macro):
\* level from e.severity, the fields error_code (when e.code is Some) and
\* backtrace, and e.message as the message.
ExceptionEventMutLevel(e) ==
    [level |-> "ERROR",
     msg |-> e.message,
     fields |-> (IF IsSome(e.code)
                 THEN <<[name |-> "error_code", type |-> "str", value |-> Unwrap(e.code)]>>
                 ELSE <<>>)
                \o <<[name |-> "backtrace", type |-> "str", value |-> "0: backtrace"]>>]

ExceptionEvent(e) ==
    [level |-> (IF e.severity = "Warn" THEN "WARN" ELSE "ERROR"),
     msg |-> e.message,
     fields |-> (IF IsSome(e.code)
                 THEN <<[name |-> "error_code", type |-> "str", value |-> Unwrap(e.code)]>>
                 ELSE <<>>)
                \o <<[name |-> "backtrace", type |-> "str", value |-> "0: backtrace"]>>]

\* an insert that removes the key and appends it at the end
IndexMapInsertMutMove(m, k, v) ==
    Append(SelectSeq(m, LAMBDA e : e.k # k), [k |-> k, v |-> v])

\* ------------------------------------------------------- log/layer.rs
\* IndexMap::insert: overwrite in place, or append a new entry
IndexMapInsert(m, k, v) ==
    IF \E i \in 1..Len(m) : m[i].k = k
    THEN [i \in 1..Len(m) |-> IF m[i].k = k THEN [k |-> k, v |-> v] ELSE m[i]]
    ELSE Append(m, [k |-> k, v |-> v])

\* *map.entry(k).or_default() += v
IndexMapAdd(m, k, v) ==
    IF \E i \in 1..Len(m) : m[i].k = k
    THEN [i \in 1..Len(m) |-> IF m[i].k = k THEN [k |-> k, v |-> U128Add(m[i].v, v)]
                               ELSE m[i]]
    ELSE Append(m, [k |-> k, v |-> v])

\* ActionVisitor::action_log and the header lines on_new_span pushes
NewActionLog(action, action_id, ref_id, t) ==
    [id |-> action_id,
     action |-> action,
     start_time |-> t,
     result |-> "OK",
     ref_id |-> ref_id,
     error_code |-> None,
     error_message |-> None,
     context |-> <<>>,
     stats |-> <<>>,
     logs |-> <<[kind |-> "begin", action |-> action, id |-> action_id]>>
              \o (IF IsSome(ref_id) THEN <<[kind |-> "ref_id", id |-> Unwrap(ref_id)]>> ELSE <<>>)]

\* action_span picking the outermost enclosing action instead of the nearest
RECURSIVE action_spanMutOutermost(_, _)
action_spanMutOutermost(sp, id) ==
    IF id = NoSpan THEN NoSpan
    ELSE LET outer == action_spanMutOutermost(sp, sp[id].parent)
         IN IF outer # NoSpan THEN outer
            ELSE IF sp[id].name = "action" /\ IsSome(sp[id].log) THEN id
            ELSE NoSpan

\* action_span: the first span of the scope, leaf to root, that is named
\* "action" and holds an ActionLog
RECURSIVE action_span(_, _)
action_span(sp, id) ==
    IF id = NoSpan THEN NoSpan
    ELSE IF sp[id].name = "action" /\ IsSome(sp[id].log) THEN id
    ELSE action_span(sp, sp[id].parent)

\* ErrorVisitor: code from the str field error_code, message from the
\* message, cut to its first 200 bytes
ErrorVisitorCode(ev) ==
    LET at == {i \in 1..Len(ev.fields) :
                   ev.fields[i].name = "error_code" /\ ev.fields[i].type = "str"}
    IN IF at = {} THEN None
       ELSE Some(ev.fields[CHOOSE i \in at : \A j \in at : j <= i].value)

\* ErrorVisitor::record_debug panics when byte MaxErrorMessage of a longer
\* message is not a character boundary
ErrorVisitorPanics(ev) ==
    /\ ByteLen(ev.msg) > MaxErrorMessage
    /\ CharsAtByte(ev.msg, MaxErrorMessage) = -1

\* ErrorVisitor::record_debug: message[..200] when message.len() > 200
ErrorVisitorMessage(ev) ==
    Some(IF ByteLen(ev.msg) > MaxErrorMessage
         THEN SubSeq(ev.msg, 1, CharsAtByte(ev.msg, MaxErrorMessage))
         ELSE ev.msg)

\* on_event, lines 154-175: a WARN/ERROR event upgrades result and the
\* error fields when its severity strictly exceeds the current result
UpgradeResultMutAlways(al, ev) ==
    IF ev.level = "ERROR" \/ ev.level = "WARN"
    THEN LET result == IF ev.level = "ERROR" THEN "ERROR" ELSE "WARN"
         IN [al EXCEPT !.result = result,
                       !.error_code = ErrorVisitorCode(ev),
                       !.error_message = ErrorVisitorMessage(ev)]
    ELSE al

UpgradeResultMutEqual(al, ev) ==
    IF ev.level = "ERROR" \/ ev.level = "WARN"
    THEN LET result == IF ev.level = "ERROR" THEN "ERROR" ELSE "WARN"
         IN IF ResultLevel(al.result) <= ResultLevel(result)
            THEN [al EXCEPT !.result = result,
                            !.error_code = ErrorVisitorCode(ev),
                            !.error_message = ErrorVisitorMessage(ev)]
            ELSE al
    ELSE al

UpgradeResultMutWarnIgnored(al, ev) ==
    IF ev.level = "ERROR"
    THEN IF ResultLevel(al.result) < ResultLevel("ERROR")
         THEN [al EXCEPT !.result = "ERROR",
                         !.error_code = ErrorVisitorCode(ev),
                         !.error_message = ErrorVisitorMessage(ev)]
         ELSE al
    ELSE al

UpgradeResult(al, ev) ==
    IF ev.level = "ERROR" \/ ev.level = "WARN"
    THEN LET result == IF ev.level = "ERROR" THEN "ERROR" ELSE "WARN"
         IN IF ResultLevel(al.result) < ResultLevel(result)
            THEN [al EXCEPT !.result = result,
                            !.error_code = ErrorVisitorCode(ev),
                            !.error_message = ErrorVisitorMessage(ev)]
            ELSE al
    ELSE al

\* the trace line on_event formats: elapsed prefix, the level when it is
\* INFO or more severe, [error_code] for WARN/ERROR, then LogVisitor's
\* rendering of the fields (error_code skipped)
EventLine(al, ev, t) ==
    [kind |-> "event",
     elapsed |-> t - al.start_time,
     level |-> (IF LevelOrd(ev.level) <= LevelOrd("INFO") THEN Some(ev.level) ELSE None),
     code |-> (IF ev.level = "ERROR" \/ ev.level = "WARN" THEN ErrorVisitorCode(ev) ELSE None),
     msg |-> ev.msg,
     fields |-> SelectSeq(ev.fields, LAMBDA f : ~(f.name = "error_code" /\ f.type = "str"))]

\* ContextVisitor: the message is visited first and sets context_type;
\* then each field is inserted into context or added to stats
ContextType(ev) ==
    IF ev.msg = ContextText THEN Some("Context")
    ELSE IF ev.msg = StatsText THEN Some("Stats")
    ELSE None

ContextVisitField(al, ctype, f) ==
    IF IsNumeric(f)
    THEN IF ctype = Some("Stats") THEN [al EXCEPT !.stats = IndexMapAdd(@, f.name, AsU128(f))]
         ELSE IF ctype = Some("Context")
              THEN [al EXCEPT !.context = IndexMapInsert(@, f.name, ToString(AsU128(f)))]
              ELSE al
    ELSE IF ctype = Some("Context")
         THEN [al EXCEPT !.context = IndexMapInsert(@, f.name, f.value)]
         ELSE al

RECURSIVE ContextVisit(_, _, _, _)
ContextVisit(al, ctype, fields, i) ==
    IF i > Len(fields) THEN al
    ELSE ContextVisit(ContextVisitField(al, ctype, fields[i]), ctype, fields, i + 1)

\* on_event for the ActionLog the event is routed to, with no line pushed
\* for a "context" or "stats" event
OnEventLogMutNoContextLine(al, ev, t) ==
    LET up == UpgradeResult(al, ev)
        logged == IF IsSome(ContextType(ev)) THEN up
                  ELSE [up EXCEPT !.logs = Append(@, EventLine(al, ev, t))]
    IN ContextVisit(logged, ContextType(ev), ev.fields, 1)

\* on_event for the ActionLog the event is routed to
OnEventLog(al, ev, t) ==
    LET up == UpgradeResult(al, ev)
        logged == [up EXCEPT !.logs = Append(@, EventLine(al, ev, t))]
    IN ContextVisit(logged, ContextType(ev), ev.fields, 1)

\* ContextVisitor in a build with overflow checks: `*stats_value += value`
\* panics on overflow, leaving the fields before it applied
RECURSIVE ContextVisitChecked(_, _, _, _)
ContextVisitChecked(al, ctype, fields, i) ==
    IF i > Len(fields) THEN [log |-> al, panic |-> FALSE]
    ELSE LET f == fields[i]
             at == {j \in 1..Len(al.stats) : al.stats[j].k = f.name}
         IN IF /\ IsNumeric(f)
               /\ ctype = Some("Stats")
               /\ \E j \in at : U128Overflows(al.stats[j].v, AsU128(f))
            THEN [log |-> al, panic |-> TRUE]
            ELSE ContextVisitChecked(ContextVisitField(al, ctype, f), ctype, fields, i + 1)

OnEventLogChecked(al, ev, t) ==
    LET up == UpgradeResult(al, ev)
        logged == [up EXCEPT !.logs = Append(@, EventLine(al, ev, t))]
    IN ContextVisitChecked(logged, ContextType(ev), ev.fields, 1)

\* ActionLogLayer::on_event without the return for TRACE events
on_eventMutNoTraceFilter(sp, cur, ev, t) ==
    LET a == action_span(sp, cur)
    IN IF a = NoSpan THEN sp
       ELSE [sp EXCEPT ![a].log = Some(OnEventLog(Unwrap(sp[a].log), ev, t))]

\* ActionLogLayer::on_event: TRACE is dropped; otherwise the event goes to
\* the ActionLog of the nearest enclosing action span, if any
on_event(sp, cur, ev, t) ==
    IF ev.level = "TRACE" THEN sp
    ELSE LET a == action_span(sp, cur)
         IN IF a = NoSpan THEN sp
            ELSE [sp EXCEPT ![a].log = Some(OnEventLog(Unwrap(sp[a].log), ev, t))]

\* close_action adding the duration to stats["elapsed"] instead of inserting it
close_actionMutAdd(al, t) ==
    [id |-> al.id,
     action |-> al.action,
     result |-> al.result,
     ref_id |-> al.ref_id,
     error_code |-> al.error_code,
     error_message |-> al.error_message,
     context |-> al.context,
     stats |-> IndexMapAdd(al.stats, "elapsed", t - al.start_time),
     trace |-> (IF ResultLevel(al.result) > ResultLevel("OK")
                THEN Some(Append(al.logs, [kind |-> "end", elapsed |-> t - al.start_time]))
                ELSE None)]

\* close_action: stats["elapsed"], and the trace only when result is above OK
close_actionMutAlwaysTrace(al, t) ==
    [id |-> al.id,
     action |-> al.action,
     result |-> al.result,
     ref_id |-> al.ref_id,
     error_code |-> al.error_code,
     error_message |-> al.error_message,
     context |-> al.context,
     stats |-> IndexMapInsert(al.stats, "elapsed", t - al.start_time),
     trace |-> Some(Append(al.logs, [kind |-> "end", elapsed |-> t - al.start_time]))]

close_action(al, t) ==
    [id |-> al.id,
     action |-> al.action,
     result |-> al.result,
     ref_id |-> al.ref_id,
     error_code |-> al.error_code,
     error_message |-> al.error_message,
     context |-> al.context,
     stats |-> IndexMapInsert(al.stats, "elapsed", t - al.start_time),
     trace |-> (IF ResultLevel(al.result) > ResultLevel("OK")
                THEN Some(Append(al.logs, [kind |-> "end", elapsed |-> t - al.start_time]))
                ELSE None)]


\* format!("{}_elapsed", span.name()) and format!("{}_count", span.name())
\* over the span names of the model
StatsKey(name, suffix) ==
    CASE name = "db" /\ suffix = "_elapsed" -> "db_elapsed"
      [] name = "db" /\ suffix = "_count" -> "db_count"
      [] name = "http" /\ suffix = "_elapsed" -> "http_elapsed"
      [] name = "http" /\ suffix = "_count" -> "http_count"

\* on_new_span for a span other than an action: when an enclosing action
\* holds an ActionLog, the span gets a SpanExtension and the log a line
SpanOpenLine(name) == [kind |-> "span_open", name |-> name]

SpanCloseLine(name, elapsed) == [kind |-> "span_close", name |-> name, elapsed |-> elapsed]

\* ActionLogLayer::on_new_span; the registry gives the span one handle and
\* makes it hold a reference to its parent
on_new_span(sp, name, parent, action, action_id, ref_id, t) ==
    LET held == IF parent = NoSpan THEN sp ELSE [sp EXCEPT ![parent].refs = @ + 1]
        a == action_span(held, parent)
    IN IF name = "action"
       THEN Append(held, [name |-> name, parent |-> parent, refs |-> 1,
                          log |-> Some(NewActionLog(action, action_id, ref_id, t)),
                          ext |-> None])
       ELSE IF a # NoSpan
            THEN Append([held EXCEPT ![a].log =
                             Some([Unwrap(@) EXCEPT !.logs = Append(@, SpanOpenLine(name))])],
                        [name |-> name, parent |-> parent, refs |-> 1,
                         log |-> None, ext |-> Some(t)])
            ELSE Append(held, [name |-> name, parent |-> parent, refs |-> 1,
                               log |-> None, ext |-> None])

\* on_close setting the span's stats instead of adding to them
on_closeMutSet(sp, app, id, t) ==
    IF IsSome(sp[id].log)
    THEN [spans |-> [sp EXCEPT ![id].log = None],
          appended |-> Append(app, [span |-> id, msg |-> close_action(Unwrap(sp[id].log), t)])]
    ELSE LET a == action_span(sp, id)
         IN IF a # NoSpan /\ IsSome(sp[id].ext)
            THEN LET elapsed == t - Unwrap(sp[id].ext)
                     al == Unwrap(sp[a].log)
                     al2 == [al EXCEPT
                               !.logs = Append(@, SpanCloseLine(sp[id].name, elapsed)),
                               !.stats = IndexMapInsert(
                                             IndexMapInsert(@, StatsKey(sp[id].name, "_elapsed"),
                                                            elapsed),
                                             StatsKey(sp[id].name, "_count"), 1)]
                 IN [spans |-> [sp EXCEPT ![a].log = Some(al2), ![id].ext = None],
                     appended |-> app]
            ELSE [spans |-> sp, appended |-> app]

\* ActionLogLayer::on_close: an action span hands its Record to the
\* appender; another span adds its elapsed time and count to the stats of
\* the enclosing action
on_close(sp, app, id, t) ==
    IF IsSome(sp[id].log)
    THEN [spans |-> [sp EXCEPT ![id].log = None],
          appended |-> Append(app, [span |-> id, msg |-> close_action(Unwrap(sp[id].log), t)])]
    ELSE LET a == action_span(sp, id)
         IN IF a # NoSpan /\ IsSome(sp[id].ext)
            THEN LET elapsed == t - Unwrap(sp[id].ext)
                     al == Unwrap(sp[a].log)
                     al2 == [al EXCEPT
                               !.logs = Append(@, SpanCloseLine(sp[id].name, elapsed)),
                               !.stats = IndexMapAdd(
                                             IndexMapAdd(@, StatsKey(sp[id].name, "_elapsed"), elapsed),
                                             StatsKey(sp[id].name, "_count"), 1)]
                 IN [spans |-> [sp EXCEPT ![a].log = Some(al2), ![id].ext = None],
                     appended |-> app]
            ELSE [spans |-> sp, appended |-> app]

\* try_close closing the span although other handles remain
RECURSIVE try_closeMutIgnoreHandles(_, _, _, _)
try_closeMutIgnoreHandles(sp, app, id, t) ==
    IF id = NoSpan \/ sp[id].refs = 0 THEN [spans |-> sp, appended |-> app]
    ELSE LET r == on_close(sp, app, id, t)
         IN try_closeMutIgnoreHandles([r.spans EXCEPT ![id].refs = 0], r.appended,
                                      sp[id].parent, t)

\* Dropping a handle of span id: the registry closes the span when its
\* last reference goes, notifies the layer, and then releases the
\* reference the span held on its parent
RECURSIVE try_close(_, _, _, _)
try_close(sp, app, id, t) ==
    IF id = NoSpan THEN [spans |-> sp, appended |-> app]
    ELSE IF sp[id].refs > 1
         THEN [spans |-> [sp EXCEPT ![id].refs = @ - 1], appended |-> app]
         ELSE LET r == on_close(sp, app, id, t)
              IN try_close([r.spans EXCEPT ![id].refs = 0], r.appended, sp[id].parent, t)

\* id_generator::random_id: an id no earlier action has
random_id(n) == n + 1


\* ------------------------------------------------------------ the state
VARIABLES
    spans,      \* the registry: per span its name, parent, handles, extensions
    tasks,      \* per task: status, the span its future is instrumented with,
                \* and the stack of start_action / instrumented scopes it is in
    appended,   \* the Records handed to ActionLogAppender::append, in order
    now,        \* the monotonic clock (Instant::now)
    ids,        \* the number of action ids generated so far
    history,    \* per span, the events on_event routed to its ActionLog
    returned    \* per action span whose start_action returned, its body's result

logVars == <<spans, tasks, appended, now, ids, history, returned>>

VARIABLES
    lifetimes    \* per span, the instants it was opened and closed at

ghostVars == <<lifetimes>>

Tasks == 1..MaxTasks

SpanNames == {"db"}

Ok == [ok |-> TRUE]
Err(e) == [ok |-> FALSE, e |-> e]

\* exception!(severity, code, message)
Exceptions ==
    [severity : {"Warn", "Error"}, code : {None, Some("E1")}, message : {Boom}]

\* the events application code emits inside or outside actions
Events ==
    {[level |-> "TRACE", msg |-> Boom, fields |-> <<>>],
     [level |-> "DEBUG", msg |-> Boom, fields |-> <<>>],
     [level |-> "INFO", msg |-> Bang, fields |-> <<>>],
     [level |-> "WARN", msg |-> Boom,
      fields |-> <<[name |-> "error_code", type |-> "str", value |-> "E1"]>>],
     [level |-> "WARN", msg |-> Bang, fields |-> <<>>],
     [level |-> "ERROR", msg |-> Boom,
      fields |-> <<[name |-> "error_code", type |-> "str", value |-> "E2"]>>],
     [level |-> "ERROR", msg |-> Bang, fields |-> <<>>],
     [level |-> "DEBUG", msg |-> ContextText,
      fields |-> <<[name |-> "k", type |-> "str", value |-> "v"]>>],
     [level |-> "DEBUG", msg |-> StatsText,
      fields |-> <<[name |-> "n", type |-> "i64", value |-> 3]>>]}

NoTask == [st |-> "none", kind |-> "none", base |-> NoSpan, ref |-> None, stack |-> <<>>]

LogInit ==
    /\ spans = <<>>
    /\ tasks = [t \in Tasks |-> IF t = 1
                                THEN [NoTask EXCEPT !.st = "run", !.kind = "main"]
                                ELSE NoTask]
    /\ appended = <<>>
    /\ now = 0
    /\ ids = 0
    /\ history = <<>>
    /\ returned = <<>>
    /\ lifetimes = <<>>

\* Span::current() of the task: the innermost scope it is in, else the span
\* its future was instrumented with
CurrentSpan(t) ==
    IF tasks[t].stack # <<>> THEN tasks[t].stack[Len(tasks[t].stack)].span
    ELSE tasks[t].base

\* current_action_id inherited by a task spawned inside an action
current_action_idMutInherit(t) ==
    LET at == {i \in 1..Len(tasks[t].stack) : tasks[t].stack[i].kind = "action"}
        a == action_span(spans, tasks[t].base)
    IN IF at = {}
       THEN IF a # NoSpan THEN Some(Unwrap(spans[a].log).id) ELSE None
       ELSE Some(tasks[t].stack[CHOOSE i \in at : \A j \in at : j <= i].action_id)

\* current_action_id finding no action in any task
current_action_idMutNone(t) == None

\* current_action_id: CURRENT_ACTION_ID of the innermost start_action scope
\* the task is in; a task-local, so not inherited by spawned tasks
current_action_id(t) ==
    LET at == {i \in 1..Len(tasks[t].stack) : tasks[t].stack[i].kind = "action"}
    IN IF at = {} THEN None
       ELSE Some(tasks[t].stack[CHOOSE i \in at : \A j \in at : j <= i].action_id)

\* the events routed so far, over all actions
TotalRouted ==
    LET RECURSIVE Sum(_)
        Sum(i) == IF i = 0 THEN 0 ELSE Len(history[i]) + Sum(i - 1)
    IN Sum(Len(history))

\* history after event ev, emitted under span cur, was offered to the layer
Routed(sp, hist, cur, ev) ==
    IF ev.level = "TRACE" \/ action_span(sp, cur) = NoSpan THEN hist
    ELSE [hist EXCEPT ![action_span(sp, cur)] = Append(@, ev)]


\* on_event reaches ErrorVisitor with a message it cannot slice
SlicePanics(sp, cur, ev) ==
    /\ ev.level \in {"WARN", "ERROR"}
    /\ action_span(sp, cur) # NoSpan
    /\ ErrorVisitorPanics(ev)

\* on_event adds to a stats counter past the end of u128
AddOverflows(sp, cur, ev, t) ==
    /\ ev.level # "TRACE"
    /\ action_span(sp, cur) # NoSpan
    /\ ~SlicePanics(sp, cur, ev)
    /\ OnEventLogChecked(Unwrap(sp[action_span(sp, cur)].log), ev, t).panic

\* the ActionLog as on_event leaves it when it panics: untouched by the
\* slice, and with the line and the earlier fields by the overflow
on_event_panic(sp, cur, ev, t) ==
    IF SlicePanics(sp, cur, ev) THEN sp
    ELSE LET a == action_span(sp, cur)
         IN [sp EXCEPT ![a].log = Some(OnEventLogChecked(Unwrap(sp[a].log), ev, t).log)]

\* a panic unwinds the task: the futures on its stack are dropped from the
\* innermost out, each dropping its span handle, then the task's own handle
RECURSIVE Unwind(_, _, _, _, _)
Unwind(sp, app, stack, base, t) ==
    IF stack = <<>> THEN try_close(sp, app, base, t)
    ELSE LET r == try_close(sp, app, stack[Len(stack)].span, t)
         IN Unwind(r.spans, r.appended, SubSeq(stack, 1, Len(stack) - 1), base, t)

\* log_exception: one WARN or ERROR event under the action's span
log_exception(sp, cur, e, t) == on_event(sp, cur, ExceptionEvent(e), t)

Push(t, frame) == [tasks EXCEPT ![t].stack = Append(@, frame)]

Top(t) == tasks[t].stack[Len(tasks[t].stack)]

Running(t) == tasks[t].st = "run"

\* the next unused task slot
FreeTask(u) == tasks[u].st = "none" /\ \A v \in Tasks : v < u => tasks[v].st # "none"

\* ------------------------------------------------------------ log.rs
\* start_action up to the first poll of the body: a fresh id, the "action"
\* span under the current span, CURRENT_ACTION_ID scoped to the body
StartAction(t) ==
    /\ Running(t)
    /\ spans' = on_new_span(spans, "action", CurrentSpan(t), "test", random_id(ids), None, now)
    /\ tasks' = Push(t, [kind |-> "action", span |-> Len(spans) + 1,
                         action_id |-> random_id(ids)])
    /\ ids' = ids + 1
    /\ history' = Append(history, <<>>)
    /\ returned' = Append(returned, None)
    /\ UNCHANGED <<appended, now>>

\* start_action from the body's result on: an Err is logged, the scope and
\* the instrumented future end, and the span handle is dropped
EndAction(t, res) ==
    /\ Running(t)
    /\ tasks[t].stack # <<>>
    /\ Top(t).kind = "action"
    /\ LET cur == Top(t).span
           sp1 == IF res.ok THEN spans ELSE log_exception(spans, cur, res.e, now)
           r == try_close(sp1, appended, cur, now)
           rest == SubSeq(tasks[t].stack, 1, Len(tasks[t].stack) - 1)
       IN /\ spans' = r.spans
          /\ appended' = r.appended
          /\ history' = IF res.ok THEN history
                        ELSE Routed(spans, history, cur, ExceptionEvent(res.e))
          /\ returned' = [returned EXCEPT ![cur] = Some(res)]
          /\ tasks' = [tasks EXCEPT ![t].stack = rest,
                                    ![t].st = IF tasks[t].kind = "action" /\ rest = <<>>
                                              THEN "done" ELSE @]
    /\ UNCHANGED <<now, ids>>

\* an event macro (debug!, info!, warn!, error!, ...) in the task
LogEvent(t, ev) ==
    /\ Running(t)
    /\ ~SlicePanics(spans, CurrentSpan(t), ev)
    /\ spans' = on_event(spans, CurrentSpan(t), ev, now)
    /\ history' = Routed(spans, history, CurrentSpan(t), ev)
    /\ UNCHANGED <<tasks, appended, now, ids, returned>>

\* an event macro whose on_event panics: always on a message it cannot
\* slice, and in a build with overflow checks on a counter overflow
LogEventPanic(t, ev) ==
    /\ Running(t)
    /\ SlicePanics(spans, CurrentSpan(t), ev) \/ AddOverflows(spans, CurrentSpan(t), ev, now)
    /\ LET r == Unwind(on_event_panic(spans, CurrentSpan(t), ev, now), appended,
                       tasks[t].stack, tasks[t].base, now)
       IN /\ spans' = r.spans
          /\ appended' = r.appended
    /\ tasks' = [tasks EXCEPT ![t].st = "panicked", ![t].stack = <<>>]
    /\ UNCHANGED <<now, ids, history, returned>>

\* debug_span!(name) with .instrument(span): the scope is entered
EnterSpan(t, name) ==
    /\ Running(t)
    /\ spans' = on_new_span(spans, name, CurrentSpan(t), None, None, None, now)
    /\ tasks' = Push(t, [kind |-> "span", span |-> Len(spans) + 1, action_id |-> 0])
    /\ history' = Append(history, <<>>)
    /\ returned' = Append(returned, None)
    /\ UNCHANGED <<appended, now, ids>>

\* the instrumented future ends and drops its span handle
ExitSpan(t) ==
    /\ Running(t)
    /\ tasks[t].stack # <<>>
    /\ Top(t).kind = "span"
    /\ LET r == try_close(spans, appended, Top(t).span, now)
       IN /\ spans' = r.spans
          /\ appended' = r.appended
    /\ tasks' = [tasks EXCEPT ![t].stack = SubSeq(@, 1, Len(@) - 1)]
    /\ UNCHANGED <<now, ids, history, returned>>

\* ------------------------------------------------------------ task.rs
\* spawn_task: the new task's future is instrumented with Span::current()
SpawnTask(t, u) ==
    /\ Running(t)
    /\ FreeTask(u)
    /\ LET cur == CurrentSpan(t)
       IN /\ spans' = IF cur = NoSpan THEN spans ELSE [spans EXCEPT ![cur].refs = @ + 1]
          /\ tasks' = [tasks EXCEPT ![u] = [NoTask EXCEPT !.st = "run", !.kind = "task",
                                                          !.base = cur]]
    /\ UNCHANGED <<appended, now, ids, history, returned>>

\* spawn_action instrumenting the new task with Span::current(), as
\* spawn_task does, instead of starting an action in it
SpawnActionMutInstrument(t, u) ==
    /\ Running(t)
    /\ FreeTask(u)
    /\ LET cur == CurrentSpan(t)
       IN /\ spans' = IF cur = NoSpan THEN spans ELSE [spans EXCEPT ![cur].refs = @ + 1]
          /\ tasks' = [tasks EXCEPT ![u] = [NoTask EXCEPT !.st = "run", !.kind = "action",
                                                          !.base = cur,
                                                          !.ref = current_action_id(t)]]
    /\ UNCHANGED <<appended, now, ids, history, returned>>

\* spawn_action: ref_id is read in the caller, the action starts in the new task
SpawnAction(t, u) ==
    /\ Running(t)
    /\ FreeTask(u)
    /\ tasks' = [tasks EXCEPT ![u] = [NoTask EXCEPT !.st = "spawned", !.kind = "action",
                                                    !.ref = current_action_id(t)]]
    /\ UNCHANGED <<spans, appended, now, ids, history, returned>>

\* first poll of a spawn_action task: start_action("task", ref_id, ..) and
\* debug!(task = name, "context")
TaskContextEvent ==
    [level |-> "DEBUG", msg |-> ContextText,
     fields |-> <<[name |-> "task", type |-> "str", value |-> "some-task"]>>]

RunSpawnedAction(u) ==
    /\ tasks[u].st = "spawned"
    /\ LET id == Len(spans) + 1
           sp1 == on_new_span(spans, "action", NoSpan, "task", random_id(ids),
                              tasks[u].ref, now)
       IN /\ spans' = on_event(sp1, id, TaskContextEvent, now)
          /\ history' = Routed(sp1, Append(history, <<>>), id, TaskContextEvent)
          /\ tasks' = [tasks EXCEPT ![u].st = "run",
                                    ![u].stack = <<[kind |-> "action", span |-> id,
                                                    action_id |-> random_id(ids)]>>]
    /\ ids' = ids + 1
    /\ returned' = Append(returned, None)
    /\ UNCHANGED <<appended, now>>

\* the task's future ends: an instrumented one drops its span handle
TaskFinish(t) ==
    /\ Running(t)
    /\ tasks[t].kind \in {"main", "task"}
    /\ tasks[t].stack = <<>>
    /\ LET r == try_close(spans, appended, tasks[t].base, now)
       IN /\ spans' = r.spans
          /\ appended' = r.appended
    /\ tasks' = [tasks EXCEPT ![t].st = "done"]
    /\ UNCHANGED <<now, ids, history, returned>>

\* time passes
Tick ==
    /\ now < MaxTime
    /\ now' = now + 1
    /\ UNCHANGED <<spans, tasks, appended, ids, history, returned>>



\* ---------------------------------------------------- kafka/consumer.rs
\* ConsumerConfig, scaled: poll_max_wait_time in clock ticks
poll_max_records == 4
poll_max_wait_time == 1

\* the messages the broker holds for the subscribed topics
MaxMessages == 3

\* add_handler("orders", ..) and add_bulk_handler("events", ..)
SingleTopics == {"orders"}

BulkTopics == {"events"}

\* handlers.keys(): the topics subscribed to
Topics == SingleTopics \cup BulkTopics

\* handler.handle with every topic dispatched to the single-message wrapper
HandlerKindMutAllSingle(topic) == "single"

\* handler.handle: the wrapper the topic's registration boxed
HandlerKind(topic) == IF topic \in BulkTopics THEN "bulk" ELSE "single"

Keys == {None, Some("A"), Some("B")}

\* the results a user handler returns
HandlerResults ==
    {Ok, Err([severity |-> "Error", code |-> None, message |-> Boom])}

VARIABLES
    cpc,         \* where MessageConsumer::start is in its loop
    position,    \* messages the consumer has fetched: its in-memory offset
    committed,   \* the committed offset
    messages,    \* poll_message_groups: topic -> messages collected, in order
    count,       \* poll_message_groups: count
    elapsed,     \* poll_message_groups: start_time.elapsed()
    topicTasks,  \* per topic, the handler task spawned for the batch
    subTasks,    \* handle_messages: the tasks spawned for keys and unkeyed messages
    signal,      \* whether a shutdown signal waits in the receiver
    fetched,     \* every message consumer.poll has returned, by offset
    wrapped,     \* offsets handed to a handler wrapper
    finished,    \* offsets whose user handler call has returned
    calls,       \* this iteration's user handler invocations
    created      \* this iteration's start_action calls

consumerVars ==
    <<cpc, position, committed, messages, count, elapsed, topicTasks, subTasks,
      signal, fetched, wrapped, finished, calls, created>>

VARIABLES
    spc,           \* where the schedule's loop in Scheduler::start is
    previous,      \* the loop's `previous`
    deadline,      \* the instant at which the loop's time::sleep completes
    jobs,          \* the job futures the loop has spawned, in order
    schedSignal,   \* whether a shutdown signal waits in the loop's receiver
    startSignal,   \* whether a shutdown signal waits in the receiver given to start
    startReturned  \* whether Scheduler::start has returned

schedulerVars == <<spc, previous, deadline, jobs, schedSignal, startSignal, startReturned>>

VARIABLES
    trackerClosed, \* whether TASK_TRACKER.close() has been called
    shutdownPc     \* where task::shutdown is

trackerVars == <<trackerClosed, shutdownPc>>

VARIABLES
    timezone,      \* Scheduler::timezone, once Scheduler::new has run
    trigger,       \* the DailyTrigger schedule_daily has built
    triggerCall    \* the last call of trigger.next: previous and result

triggerVars == <<timezone, trigger, triggerCall>>

VARIABLES
    sends,         \* how many times the shutdown signal has been broadcast
    rx             \* per receiver of main: the signals it holds and its owner's state

broadcastVars == <<sends, rx>>

VARIABLES
    indexDate,     \* the date an index name was built for, if it was built
    indexName,     \* the index name given to created_date
    createdDate    \* what created_date returned for it

indexVars == <<indexDate, indexName, createdDate>>

VARIABLES
    emitted        \* the events emitted so far, each with the span it was emitted under

traceVars == <<emitted>>

laterVars == <<broadcastVars, indexVars, traceVars>>

vars ==
    <<logVars, ghostVars, consumerVars, schedulerVars, trackerVars, triggerVars, laterVars>>

\* the variables the logging layer and its tasks leave alone
otherVars == <<consumerVars, schedulerVars, trackerVars, triggerVars, laterVars>>
restVars == <<ghostVars, otherVars>>

\* the variables the consumer, the scheduler and the trigger leave alone
exceptConsumer == <<ghostVars, schedulerVars, trackerVars, triggerVars, laterVars>>
exceptScheduler == <<ghostVars, consumerVars, trackerVars, triggerVars, laterVars>>
exceptTrigger == <<logVars, ghostVars, consumerVars, schedulerVars, trackerVars, laterVars>>
exceptTracker == <<ghostVars, consumerVars, schedulerVars, triggerVars, laterVars>>
exceptBroadcast ==
    <<logVars, ghostVars, consumerVars, schedulerVars, trackerVars, triggerVars, indexVars,
      traceVars>>
exceptIndex ==
    <<logVars, ghostVars, consumerVars, schedulerVars, trackerVars, triggerVars, broadcastVars,
      traceVars>>
exceptTrace ==
    <<ghostVars, consumerVars, schedulerVars, trackerVars, triggerVars, broadcastVars,
      indexVars>>

NoTopicTask == [st |-> "none", msgs |-> <<>>, span |-> NoSpan]

ConsumerInit ==
    /\ cpc = "poll"
    /\ position = 0
    /\ committed = 0
    /\ messages = <<>>
    /\ count = 1
    /\ elapsed = 0
    /\ topicTasks = [topic \in Topics |-> NoTopicTask]
    /\ subTasks = <<>>
    /\ signal = FALSE
    /\ fetched = <<>>
    /\ wrapped = {}
    /\ finished = {}
    /\ calls = <<>>
    /\ created = <<>>

\* poll_message_groups: the loop breaks on the wait time or the count
PollBreak == elapsed >= poll_max_wait_time \/ count >= poll_max_records

\* messages.entry(topic).or_default().push(message)
PushMessage(map, m) ==
    IF m.topic \in DOMAIN map THEN [map EXCEPT ![m.topic] = Append(@, m)]
    ELSE [topic \in DOMAIN map \cup {m.topic} |->
              IF topic = m.topic THEN <<m>> ELSE map[topic]]

\* consumer.poll returns Some(Ok(message))
PollMessage(topic, key) ==
    /\ cpc = "poll"
    /\ ~PollBreak
    /\ position < MaxMessages
    /\ topic \in BulkTopics => key = None
    /\ LET m == [topic |-> topic, key |-> key, offset |-> position + 1,
                 ref_id |-> None, timestamp |-> None]
       IN /\ messages' = PushMessage(messages, m)
          /\ fetched' = Append(fetched, m)
    /\ count' = count + 1
    /\ position' = position + 1
    /\ UNCHANGED <<cpc, committed, elapsed, topicTasks, subTasks, signal, wrapped,
                   finished, calls, created, logVars>>

\* consumer.poll returns None after d ticks of the remaining wait time
PollNone(d) ==
    /\ cpc = "poll"
    /\ ~PollBreak
    /\ d \in 1..(poll_max_wait_time - elapsed)
    /\ elapsed' = elapsed + d
    /\ UNCHANGED <<cpc, position, committed, messages, count, topicTasks, subTasks,
                   signal, fetched, wrapped, finished, calls, created, logVars>>

\* start returning the poll error to its caller instead of sleeping
PollErrorMutReturn ==
    /\ cpc = "poll"
    /\ ~PollBreak
    /\ messages' = <<>>
    /\ cpc' = "stopped"
    /\ UNCHANGED <<position, committed, count, elapsed, topicTasks, subTasks, signal,
                   fetched, wrapped, finished, calls, created, logVars>>

\* consumer.poll returns Some(Err(e)): result? leaves poll_message_groups
\* with the error and drops the messages collected so far; start logs the
\* error and sleeps
PollError ==
    /\ cpc = "poll"
    /\ ~PollBreak
    /\ messages' = <<>>
    /\ cpc' = "sleep"
    /\ UNCHANGED <<position, committed, count, elapsed, topicTasks, subTasks, signal,
                   fetched, wrapped, finished, calls, created, logVars>>

RECURSIVE OffsetsOf(_)
OffsetsOf(ms) == IF ms = <<>> THEN <<>> ELSE <<Head(ms).offset>> \o OffsetsOf(Tail(ms))

\* poll_message_groups returns Ok(messages); start spawns the handler of
\* each topic group with its messages
Dispatch ==
    /\ cpc = "poll"
    /\ PollBreak
    /\ topicTasks' = [topic \in Topics |->
                          IF topic \in DOMAIN messages
                          THEN [NoTopicTask EXCEPT !.st = "spawned", !.msgs = messages[topic]]
                          ELSE NoTopicTask]
    /\ wrapped' = wrapped \cup UNION {{messages[topic][i].offset :
                                            i \in 1..Len(messages[topic])} :
                                        topic \in DOMAIN messages}
    /\ cpc' = "join"
    /\ UNCHANGED <<position, committed, messages, count, elapsed, subTasks, signal,
                   fetched, finished, calls, created, logVars>>


\* the events of a body, in order, under span cur
RECURSIVE LogEvents(_, _, _, _, _)
LogEvents(sp, hist, cur, evs, t) ==
    IF evs = <<>> THEN [spans |-> sp, history |-> hist]
    ELSE LogEvents(on_event(sp, cur, Head(evs), t), Routed(sp, hist, cur, Head(evs)),
                   cur, Tail(evs), t)

MessageText == <<"[", "m", "e", "s", "s", "a", "g", "e", "]">>

StrField(name, value) == [name |-> name, type |-> "str", value |-> value]

\* an Option<String> field records nothing when it is None
OptField(name, value) == IF IsSome(value) THEN <<StrField(name, Unwrap(value))>> ELSE <<>>

\* handle_message: the events ahead of the handler call
HandleMessageEvents(topic, m) ==
    <<[level |-> "DEBUG", msg |-> MessageText, fields |-> <<StrField("topic", topic)>>],
      [level |-> "DEBUG", msg |-> MessageText,
       fields |-> <<StrField("key", IF IsSome(m.key) THEN "Some" ELSE "None")>>],
      [level |-> "DEBUG", msg |-> MessageText, fields |-> OptField("timestamp", m.timestamp)],
      [level |-> "DEBUG", msg |-> MessageText,
       fields |-> <<StrField("payload", ToString(m.offset))>>],
      [level |-> "DEBUG", msg |-> ContextText,
       fields |-> <<StrField("topic", topic)>> \o OptField("key", m.key)],
      [level |-> "DEBUG", msg |-> StatsText,
       fields |-> <<[name |-> "message_count", type |-> "i64", value |-> 1]>>]>>

\* handle_bulk_messages: the events ahead of the handler call
RECURSIVE BulkMessageLines(_)
BulkMessageLines(ms) ==
    IF ms = <<>> THEN <<>>
    ELSE <<[level |-> "DEBUG", msg |-> MessageText,
            fields |-> OptField("key", Head(ms).key)
                       \o <<StrField("payload", ToString(Head(ms).offset))>>]>>
         \o BulkMessageLines(Tail(ms))

HandleBulkMessagesEvents(topic, ms) ==
    BulkMessageLines(ms)
    \o <<[level |-> "DEBUG", msg |-> ContextText, fields |-> <<StrField("topic", topic)>>],
         [level |-> "DEBUG", msg |-> StatsText,
          fields |-> <<[name |-> "message_count", type |-> "u64", value |-> Len(ms)]>>]>>

\* handle_messages, first loop, with the next list of an existing node
\* replaced instead of extended
RECURSIVE BuildNodesMutReplaceNext(_, _, _)
BuildNodesMutReplaceNext(ms, i, acc) ==
    IF i > Len(ms) THEN acc
    ELSE LET m == ms[i]
             at == {n \in 1..Len(acc.nodes) : Some(acc.nodes[n].key) = m.key}
         IN IF IsSome(m.key)
            THEN IF at # {}
                 THEN LET n == CHOOSE n \in at : TRUE
                      IN BuildNodesMutReplaceNext(ms, i + 1,
                             [acc EXCEPT !.nodes[n].next = Some(<<m>>)])
                 ELSE BuildNodesMutReplaceNext(ms, i + 1,
                          [acc EXCEPT !.nodes = Append(@, [key |-> Unwrap(m.key),
                                                           message |-> m, next |-> None])])
            ELSE BuildNodesMutReplaceNext(ms, i + 1, [acc EXCEPT !.handles = Append(@, <<m>>)])

\* handle_messages, first loop, with every keyed message given a node of
\* its own
RECURSIVE BuildNodesMutNodePerMessage(_, _, _)
BuildNodesMutNodePerMessage(ms, i, acc) ==
    IF i > Len(ms) THEN acc
    ELSE LET m == ms[i]
         IN IF IsSome(m.key)
            THEN BuildNodesMutNodePerMessage(ms, i + 1,
                     [acc EXCEPT !.nodes = Append(@, [key |-> Unwrap(m.key),
                                                      message |-> m, next |-> None])])
            ELSE BuildNodesMutNodePerMessage(ms, i + 1,
                     [acc EXCEPT !.handles = Append(@, <<m>>)])

\* handle_messages, first loop: an unkeyed message is spawned at once; a
\* keyed message starts the node of its key or joins the node's next list
RECURSIVE BuildNodes(_, _, _)
BuildNodes(ms, i, acc) ==
    IF i > Len(ms) THEN acc
    ELSE LET m == ms[i]
             at == {n \in 1..Len(acc.nodes) : Some(acc.nodes[n].key) = m.key}
         IN IF IsSome(m.key)
            THEN IF at # {}
                 THEN LET n == CHOOSE n \in at : TRUE
                      IN BuildNodes(ms, i + 1,
                             [acc EXCEPT !.nodes[n].next =
                                  IF IsSome(@) THEN Some(Append(Unwrap(@), m))
                                  ELSE Some(<<m>>)])
                 ELSE BuildNodes(ms, i + 1,
                          [acc EXCEPT !.nodes = Append(@, [key |-> Unwrap(m.key),
                                                           message |-> m, next |-> None])])
            ELSE BuildNodes(ms, i + 1, [acc EXCEPT !.handles = Append(@, <<m>>)])

\* handle_messages, second loop, with one task spawned for all the nodes
RECURSIVE ChainAll(_)
ChainAll(nodes) ==
    IF nodes = <<>> THEN <<>>
    ELSE <<Head(nodes).message>>
         \o (IF IsSome(Head(nodes).next) THEN Unwrap(Head(nodes).next) ELSE <<>>)
         \o ChainAll(Tail(nodes))

NodeTasksMutOneTask(nodes) == IF nodes = <<>> THEN <<>> ELSE <<ChainAll(nodes)>>

\* handle_messages, second loop: the task of a node handles node.message
\* and then each message of node.next, one after the other
RECURSIVE NodeTasks(_)
NodeTasks(nodes) ==
    IF nodes = <<>> THEN <<>>
    ELSE <<<<Head(nodes).message>>
           \o (IF IsSome(Head(nodes).next) THEN Unwrap(Head(nodes).next) ELSE <<>>)>>
         \o NodeTasks(Tail(nodes))

NewSubTask(topic, ms) == [topic |-> topic, msgs |-> ms, done |-> 0, span |-> NoSpan]

\* handle_messages up to join_all: one task per unkeyed message and one
\* per node
HandleMessages(topic) ==
    /\ topicTasks[topic].st = "spawned"
    /\ HandlerKind(topic) = "single"
    /\ LET built == BuildNodes(topicTasks[topic].msgs, 1, [handles |-> <<>>, nodes |-> <<>>])
           work == built.handles \o NodeTasks(built.nodes)
       IN subTasks' = [k \in 1..Len(work) |-> NewSubTask(topic, work[k])]
    /\ topicTasks' = [topicTasks EXCEPT ![topic].st = "join"]
    /\ UNCHANGED <<cpc, position, committed, messages, count, elapsed, signal, fetched,
                   wrapped, finished, calls, created, logVars>>

\* handle_message up to the handler call, in task k: the "message" action
\* starts, the message is logged, the handler gets the message
SubBegin(k) ==
    /\ k \in 1..Len(subTasks)
    /\ subTasks[k].span = NoSpan
    /\ subTasks[k].done < Len(subTasks[k].msgs)
    /\ LET m == subTasks[k].msgs[subTasks[k].done + 1]
           id == random_id(ids)
           sid == Len(spans) + 1
           sp0 == on_new_span(spans, "action", NoSpan, "message", id, m.ref_id, now)
           r == LogEvents(sp0, Append(history, <<>>), sid,
                          HandleMessageEvents(subTasks[k].topic, m), now)
       IN /\ spans' = r.spans
          /\ history' = r.history
          /\ returned' = Append(returned, None)
          /\ ids' = ids + 1
          /\ subTasks' = [subTasks EXCEPT ![k].span = sid]
          /\ created' = Append(created, [action |-> "message", topic |-> subTasks[k].topic,
                                         offsets |-> <<m.offset>>, action_id |-> id])
          /\ calls' = Append(calls, [topic |-> subTasks[k].topic, offsets |-> <<m.offset>>,
                                     action_id |-> id])
    /\ UNCHANGED <<cpc, position, committed, messages, count, elapsed, topicTasks, signal,
                   fetched, wrapped, finished, tasks, appended, now>>

\* handle_message from the handler's result on: start_action logs an Err
\* and the action closes; the task goes on to its next message
SubEnd(k, res) ==
    /\ k \in 1..Len(subTasks)
    /\ subTasks[k].span # NoSpan
    /\ LET cur == subTasks[k].span
           m == subTasks[k].msgs[subTasks[k].done + 1]
           sp1 == IF res.ok THEN spans ELSE log_exception(spans, cur, res.e, now)
           r == try_close(sp1, appended, cur, now)
       IN /\ spans' = r.spans
          /\ appended' = r.appended
          /\ history' = IF res.ok THEN history
                        ELSE Routed(spans, history, cur, ExceptionEvent(res.e))
          /\ returned' = [returned EXCEPT ![cur] = Some(res)]
          /\ finished' = finished \cup {m.offset}
    /\ subTasks' = [subTasks EXCEPT ![k].span = NoSpan, ![k].done = @ + 1]
    /\ UNCHANGED <<cpc, position, committed, messages, count, elapsed, topicTasks, signal,
                   fetched, wrapped, calls, created, tasks, now, ids>>

\* handle_messages returning without awaiting join_all(handles)
HandleJoinMutNoWait(topic) ==
    /\ topicTasks[topic].st = "join"
    /\ topicTasks' = [topicTasks EXCEPT ![topic].st = "done"]
    /\ UNCHANGED <<cpc, position, committed, messages, count, elapsed, subTasks, signal,
                   fetched, wrapped, finished, calls, created, logVars>>

\* handle_messages: join_all returns when every task has ended
HandleJoin(topic) ==
    /\ topicTasks[topic].st = "join"
    /\ \A k \in 1..Len(subTasks) :
           subTasks[k].span = NoSpan /\ subTasks[k].done = Len(subTasks[k].msgs)
    /\ topicTasks' = [topicTasks EXCEPT ![topic].st = "done"]
    /\ subTasks' = <<>>
    /\ UNCHANGED <<cpc, position, committed, messages, count, elapsed, signal, fetched,
                   wrapped, finished, calls, created, logVars>>

\* handle_bulk_messages up to the handler call: one "message" action for
\* the topic's messages, and the handler gets them all
BulkBegin(topic) ==
    /\ topicTasks[topic].st = "spawned"
    /\ HandlerKind(topic) = "bulk"
    /\ LET ms == topicTasks[topic].msgs
           id == random_id(ids)
           sid == Len(spans) + 1
           sp0 == on_new_span(spans, "action", NoSpan, "message", id, None, now)
           r == LogEvents(sp0, Append(history, <<>>), sid,
                          HandleBulkMessagesEvents(topic, ms), now)
       IN /\ spans' = r.spans
          /\ history' = r.history
          /\ returned' = Append(returned, None)
          /\ ids' = ids + 1
          /\ topicTasks' = [topicTasks EXCEPT ![topic].st = "action", ![topic].span = sid]
          /\ created' = Append(created, [action |-> "message", topic |-> topic,
                                         offsets |-> OffsetsOf(ms), action_id |-> id])
          /\ calls' = Append(calls, [topic |-> topic, offsets |-> OffsetsOf(ms),
                                     action_id |-> id])
    /\ UNCHANGED <<cpc, position, committed, messages, count, elapsed, subTasks, signal,
                   fetched, wrapped, finished, tasks, appended, now>>

\* handle_bulk_messages from the handler's result on
BulkEnd(topic, res) ==
    /\ topicTasks[topic].st = "action"
    /\ LET cur == topicTasks[topic].span
           sp1 == IF res.ok THEN spans ELSE log_exception(spans, cur, res.e, now)
           r == try_close(sp1, appended, cur, now)
       IN /\ spans' = r.spans
          /\ appended' = r.appended
          /\ history' = IF res.ok THEN history
                        ELSE Routed(spans, history, cur, ExceptionEvent(res.e))
          /\ returned' = [returned EXCEPT ![cur] = Some(res)]
    /\ finished' = finished \cup {topicTasks[topic].msgs[i].offset :
                                      i \in 1..Len(topicTasks[topic].msgs)}
    /\ topicTasks' = [topicTasks EXCEPT ![topic].st = "done", ![topic].span = NoSpan]
    /\ UNCHANGED <<cpc, position, committed, messages, count, elapsed, subTasks, signal,
                   fetched, wrapped, calls, created, tasks, now, ids>>

\* start committing without awaiting join_all(handles)
CommitMutNoJoin(ok) ==
    /\ cpc = "join"
    /\ committed' = IF ok THEN position ELSE committed
    /\ cpc' = "check"
    /\ UNCHANGED <<position, messages, count, elapsed, topicTasks, subTasks, signal,
                   fetched, wrapped, finished, calls, created, logVars>>

\* start: join_all(handles) has returned; commit_consumer_state commits
\* the consumer's position, and a failure to commit is only logged
Commit(ok) ==
    /\ cpc = "join"
    /\ \A topic \in Topics : topicTasks[topic].st \in {"none", "done"}
    /\ committed' = IF ok THEN position ELSE committed
    /\ cpc' = "check"
    /\ UNCHANGED <<position, messages, count, elapsed, topicTasks, subTasks, signal,
                   fetched, wrapped, finished, calls, created, logVars>>

\* start: the sleep after a poll error
Sleep ==
    /\ cpc = "sleep"
    /\ cpc' = "check"
    /\ UNCHANGED <<position, committed, messages, count, elapsed, topicTasks, subTasks,
                   signal, fetched, wrapped, finished, calls, created, logVars>>

\* start stopping when try_recv() finds no signal and going on when it
\* finds one
CheckShutdownMutNegated ==
    /\ cpc = "check"
    /\ IF ~signal
       THEN /\ cpc' = "stopped"
            /\ UNCHANGED <<messages, count, elapsed, signal>>
       ELSE /\ cpc' = "poll"
            /\ messages' = <<>>
            /\ count' = 1
            /\ elapsed' = 0
            /\ signal' = FALSE
    /\ UNCHANGED <<position, committed, topicTasks, subTasks, fetched, wrapped, finished,
                   calls, created, logVars>>

\* start: shutdown_signel.try_recv() at the end of an iteration; without a
\* signal the loop polls again
CheckShutdown ==
    /\ cpc = "check"
    /\ IF signal
       THEN /\ cpc' = "stopped"
            /\ signal' = FALSE
            /\ UNCHANGED <<messages, count, elapsed>>
       ELSE /\ cpc' = "poll"
            /\ messages' = <<>>
            /\ count' = 1
            /\ elapsed' = 0
            /\ UNCHANGED signal
    /\ UNCHANGED <<position, committed, topicTasks, subTasks, fetched, wrapped, finished,
                   calls, created, logVars>>

\* the shutdown signal is broadcast
SendShutdown ==
    /\ cpc # "stopped"
    /\ ~signal
    /\ signal' = TRUE
    /\ UNCHANGED <<cpc, position, committed, messages, count, elapsed, topicTasks,
                   subTasks, fetched, wrapped, finished, calls, created, logVars>>

\* the state after construction: no span, the main task, a consumer about
\* to poll
\* -------------------------------------------------- schedule/trigger.rs
\* the length of a day, in ticks (24 hours, scaled down)
DayLen == 4

\* the offsets east of UTC, the times of day and the instants tried
Offsets == {-1, 0, 1, 2}
TimesOfDay == 0..(DayLen - 1)
Instants == DayLen..(3 * DayLen - 1)

TriggerInit ==
    /\ timezone = None
    /\ trigger = None
    /\ triggerCall = None

\* Scheduler::new(timezone)
SchedulerNew(tz) ==
    /\ timezone = None
    /\ timezone' = Some(tz)
    /\ UNCHANGED <<trigger, triggerCall>>

\* schedule_daily building the trigger in UTC instead of the scheduler's timezone
DailyTriggerMutUtc(tz, time) == [time_zone |-> 0, time |-> time]

\* schedule_daily: DailyTrigger { time_zone: self.timezone, time }
DailyTrigger(tz, time) == [time_zone |-> tz, time |-> time]

schedule_daily(time) ==
    /\ IsSome(timezone)
    /\ trigger = None
    /\ trigger' = Some(DailyTrigger(Unwrap(timezone), time))
    /\ UNCHANGED <<timezone, triggerCall>>

\* DailyTrigger::next: previous in local time, the configured time of that
\* day or of the next one when it has passed, back in UTC
DailyNext(tr, prev) ==
    LET local == prev + tr.time_zone
        today == local - (local % DayLen) + tr.time
    IN (IF today >= local THEN today ELSE today + DayLen) - tr.time_zone

\* trigger.next(previous)
TriggerNext(prev) ==
    /\ IsSome(trigger)
    /\ triggerCall' = Some([previous |-> prev, next |-> DailyNext(Unwrap(trigger), prev)])
    /\ UNCHANGED <<timezone, trigger>>

\* schedule_fixed_rate: FixedRateTrigger { interval }
FixedRateTrigger(interval) == [interval |-> interval]

schedule_fixed_rate(interval) ==
    /\ IsSome(timezone)
    /\ trigger = None
    /\ trigger' = Some(FixedRateTrigger(interval))
    /\ UNCHANGED <<timezone, triggerCall>>

\* FixedRateTrigger::next
FixedRateNext(tr, prev) == prev + tr.interval

\* schedule.trigger.next(previous), whichever trigger the schedule has
ScheduleNext(tr, prev) ==
    IF "interval" \in DOMAIN tr THEN FixedRateNext(tr, prev) ELSE DailyNext(tr, prev)

\* ----------------------------------------------------------- schedule.rs
\* time::sleep(Duration::from_secs(3)), in ticks of one second
initial_delay == 3

\* the interval of the fixed rate schedule, in ticks
JobInterval == 1

\* the results a job returns
JobResults == {Ok} \cup {Err(e) : e \in Exceptions}

NoJob == [scheduled_time |-> 0, st |-> "none", span |-> NoSpan]

SchedulerInit ==
    /\ spc = "created"
    /\ previous = 0
    /\ deadline = 0
    /\ jobs = <<>>
    /\ schedSignal = FALSE
    /\ startSignal = FALSE
    /\ startReturned = FALSE

\* start is polled: the schedule's loop gets shutdown_signel.resubscribe(),
\* a receiver that holds nothing of what was sent before, and begins its
\* initial delay
SchedStart ==
    /\ spc = "created"
    /\ IsSome(trigger)
    /\ schedSignal' = FALSE
    /\ deadline' = now + initial_delay
    /\ spc' = "delay"
    /\ UNCHANGED <<previous, jobs, startSignal, startReturned, logVars>>

\* the initial delay has passed: previous = Utc::now()
SchedDelay ==
    /\ spc = "delay"
    /\ now >= deadline
    /\ previous' = now
    /\ spc' = "next"
    /\ UNCHANGED <<deadline, jobs, schedSignal, startSignal, startReturned, logVars>>

\* the head of the loop: next = trigger.next(previous), the wait is
\* next - previous from now on, previous = next
SchedNext ==
    /\ spc = "next"
    /\ LET scheduled_time == ScheduleNext(Unwrap(trigger), previous)
           waiting_time == scheduled_time - previous
       IN /\ waiting_time >= 0
          /\ deadline' = now + waiting_time
          /\ previous' = scheduled_time
    /\ spc' = "select"
    /\ UNCHANGED <<jobs, schedSignal, startSignal, startReturned, logVars>>

\* select!: the sleep completed, with the loop awaiting the job it starts
\* before it goes on, so that a firing needs the earlier ones to be done
SchedFireMutAwaitJob ==
    /\ spc = "select"
    /\ now >= deadline
    /\ \A j \in 1..Len(jobs) : jobs[j].st = "done"
    /\ jobs' = Append(jobs, [NoJob EXCEPT !.scheduled_time = previous, !.st = "spawned"])
    /\ spc' = "next"
    /\ UNCHANGED <<previous, deadline, schedSignal, startSignal, startReturned, logVars>>

\* select!: the sleep completed, the job is spawned with the scheduled time
SchedFire ==
    /\ spc = "select"
    /\ now >= deadline
    /\ jobs' = Append(jobs, [NoJob EXCEPT !.scheduled_time = previous, !.st = "spawned"])
    /\ spc' = "next"
    /\ UNCHANGED <<previous, deadline, schedSignal, startSignal, startReturned, logVars>>

\* select!: shutdown_signel.recv() completed, the loop returns
SchedShutdown ==
    /\ spc = "select"
    /\ schedSignal
    /\ schedSignal' = FALSE
    /\ spc' = "exited"
    /\ UNCHANGED <<previous, deadline, jobs, startSignal, startReturned, logVars>>

\* start: handle.await for the loop, then Ok(())
SchedStartReturn ==
    /\ spc = "exited"
    /\ ~startReturned
    /\ startReturned' = TRUE
    /\ UNCHANGED <<spc, previous, deadline, jobs, schedSignal, startSignal, logVars>>

\* the shutdown signal is broadcast: it reaches the receiver given to start
\* and the receiver of a loop that exists
SchedSendShutdown ==
    /\ ~startSignal
    /\ startSignal' = TRUE
    /\ schedSignal' = (spc \notin {"created", "exited"})
    /\ UNCHANGED <<spc, previous, deadline, jobs, startReturned, logVars>>

\* time passes
SchedTick ==
    /\ now' = now + 1
    /\ UNCHANGED <<spans, tasks, appended, ids, history, returned, schedulerVars>>

JobText == <<"[", "j", "o", "b", "]">>

\* process_job: the events before the job runs
ProcessJobEvents(name, scheduled_time) ==
    <<[level |-> "DEBUG", msg |-> JobText, fields |-> <<StrField("name", name)>>],
      [level |-> "DEBUG", msg |-> JobText,
       fields |-> <<StrField("scheduled_time", ToString(scheduled_time))>>],
      [level |-> "DEBUG", msg |-> ContextText,
       fields |-> <<StrField("job", name),
                    StrField("scheduled_time", ToString(scheduled_time))>>]>>

\* process_job dropping the job's result instead of handing it to start_action
ProcessJobEndMutDropResult(sp, app, cur, res, t) == try_close(sp, app, cur, t)

\* process_job from the job's result on: start_action logs an Err and the
\* action closes
ProcessJobEnd(sp, app, cur, res, t) ==
    try_close(IF res.ok THEN sp ELSE log_exception(sp, cur, res.e, t), app, cur, t)

\* first poll of a spawned job: start_action("job", None, ..) and its events
JobBegin(j) ==
    /\ j \in 1..Len(jobs)
    /\ jobs[j].st = "spawned"
    /\ LET sid == Len(spans) + 1
           sp0 == on_new_span(spans, "action", NoSpan, "job", random_id(ids), None, now)
           r == LogEvents(sp0, Append(history, <<>>), sid,
                          ProcessJobEvents("some-job", jobs[j].scheduled_time), now)
       IN /\ spans' = r.spans
          /\ history' = r.history
          /\ jobs' = [jobs EXCEPT ![j].st = "running", ![j].span = sid]
    /\ returned' = Append(returned, None)
    /\ ids' = ids + 1
    /\ UNCHANGED <<spc, previous, deadline, schedSignal, startSignal, startReturned, tasks,
                   appended, now>>

\* the job returns
JobEnd(j, res) ==
    /\ j \in 1..Len(jobs)
    /\ jobs[j].st = "running"
    /\ LET cur == jobs[j].span
           r == ProcessJobEnd(spans, appended, cur, res, now)
       IN /\ spans' = r.spans
          /\ appended' = r.appended
          /\ history' = IF res.ok THEN history
                        ELSE Routed(spans, history, cur, ExceptionEvent(res.e))
          /\ returned' = [returned EXCEPT ![cur] = Some(res)]
    /\ jobs' = [jobs EXCEPT ![j].st = "done"]
    /\ UNCHANGED <<spc, previous, deadline, schedSignal, startSignal, startReturned, tasks,
                   now, ids>>

\* ---------------------------------------------------- task.rs, shutdown
TrackerInit ==
    /\ trackerClosed = FALSE
    /\ shutdownPc = "idle"

\* the tasks TASK_TRACKER counts: spawned by spawn_action or spawn_task and
\* not yet dropped
Tracked(u) == tasks[u].kind \in {"task", "action"} /\ tasks[u].st \in {"spawned", "run"}

\* shutdown, called outside any action: info!, TASK_TRACKER.close(), and
\* the wait begins
ShutdownBegin ==
    /\ shutdownPc = "idle"
    /\ trackerClosed' = TRUE
    /\ shutdownPc' = "waiting"
    /\ UNCHANGED logVars

\* TASK_TRACKER.wait() completes: the tracker is closed and empty
ShutdownWaitDone ==
    /\ shutdownPc = "waiting"
    /\ trackerClosed
    /\ \A u \in Tasks : ~Tracked(u)
    /\ shutdownPc' = "woken"
    /\ UNCHANGED <<trackerClosed, logVars>>

\* info!("tasks finished") and shutdown returns
ShutdownReturn ==
    /\ shutdownPc = "woken"
    /\ shutdownPc' = "returned"
    /\ UNCHANGED <<trackerClosed, logVars>>

\* ------------------------------------------- shutdown.rs and its receivers
\* main: the receivers subscribed before shutdown.listen()
Receivers == {"http", "scheduler", "consumer"}

BroadcastInit ==
    /\ sends = 0
    /\ rx = [r \in Receivers |-> [pending |-> 0, st |-> "subscribed", checks |-> 0]]

\* the broadcast is sent: every receiver still held gets the signal
ShutdownSend ==
    /\ sends' = sends + 1
    /\ rx' = [r \in Receivers |->
                 IF rx[r].st = "subscribed" THEN [rx[r] EXCEPT !.pending = @ + 1] ELSE rx[r]]

\* start_http_server: shutdown_signal.recv().await completes and the
\* graceful shutdown begins
HttpRecv ==
    /\ rx["http"].st = "subscribed"
    /\ rx["http"].pending > 0
    /\ rx' = [rx EXCEPT !["http"].pending = @ - 1, !["http"].st = "observed"]
    /\ UNCHANGED sends

\* MessageConsumer::start reading try_recv().is_ok() as its negation
TryRecvStopsMutNegated(r) ==
    /\ rx[r].st = "subscribed"
    /\ IF rx[r].pending > 0
       THEN rx' = [rx EXCEPT ![r].pending = @ - 1, ![r].checks = @ + 1]
       ELSE rx' = [rx EXCEPT ![r].st = "observed"]
    /\ UNCHANGED sends

\* MessageConsumer::start, end of an iteration: try_recv().is_ok() ends the
\* loop, an empty channel lets it go on
TryRecvStops(r) ==
    /\ rx[r].st = "subscribed"
    /\ IF rx[r].pending > 0
       THEN rx' = [rx EXCEPT ![r].pending = @ - 1, ![r].st = "observed"]
       ELSE rx' = [rx EXCEPT ![r].checks = @ + 1]
    /\ UNCHANGED sends

ConsumerTryRecv == TryRecvStops("consumer")

\* --------------------------------------------- log_processor/src/job.rs
\* text is a sequence of one-character strings
Digits == <<"0", "1", "2", "3", "4", "5", "6", "7", "8", "9">>

IsDigit(c) == \E i \in 1..10 : Digits[i] = c

\* \w, among the characters tried
IsWord(c) ==
    \/ IsDigit(c)
    \/ c \in {"a", "b", "c", "d", "e", "f", "g", "h", "i", "j", "k", "l", "m", "n", "o", "p",
              "q", "r", "s", "t", "u", "v", "w", "x", "y", "z", "_"}

\* [\w.\-]
IsNameChar(c) == IsWord(c) \/ c \in {".", "-"}

DigitValue(c) == (CHOOSE i \in 1..10 : Digits[i] = c) - 1

RECURSIVE NumberOf(_)
NumberOf(text) ==
    IF text = <<>> THEN 0
    ELSE 10 * NumberOf(SubSeq(text, 1, Len(text) - 1)) + DigitValue(text[Len(text)])

\* n in decimal, zero-padded to width characters
RECURSIVE Padded(_, _)
Padded(n, width) ==
    IF width = 0 /\ n = 0 THEN <<>>
    ELSE Append(Padded(n \div 10, IF width = 0 THEN 0 ELSE width - 1), Digits[(n % 10) + 1])

IsLeap(y) == (y % 4 = 0 /\ y % 100 # 0) \/ y % 400 = 0

DaysIn(y, m) ==
    IF m = 2 THEN (IF IsLeap(y) THEN 29 ELSE 28)
    ELSE IF m \in {4, 6, 9, 11} THEN 30 ELSE 31

\* NaiveDate::from_ymd_opt
IsDate(y, m, d) == m \in 1..12 /\ d \in 1..DaysIn(y, m)

\* NaiveDate::format("%Y.%m.%d"): the year has four digits from 0 to 9999
\* and a sign and more digits beyond
FormatDate(date) ==
    (IF date.y > 9999 THEN <<"+">> \o Padded(date.y, 0) ELSE Padded(date.y, 4))
        \o <<".">> \o Padded(date.m, 2) \o <<".">> \o Padded(date.d, 2)

\* (\d{4}\.\d{2}\.\d{2})
MatchesDatePattern(text) ==
    /\ Len(text) = 10
    /\ \A i \in {1, 2, 3, 4, 6, 7, 9, 10} : IsDigit(text[i])
    /\ text[5] = "." /\ text[8] = "."

\* NaiveDate::parse_from_str(text, "%Y.%m.%d") for a text the pattern matched
ParseDate(text) ==
    LET y == NumberOf(SubSeq(text, 1, 4))
        m == NumberOf(SubSeq(text, 6, 7))
        d == NumberOf(SubSeq(text, 9, 10))
    IN IF IsDate(y, m, d) THEN Some([y |-> y, m |-> m, d |-> d]) ELSE None

\* INDEX_REGEX without its leading \w: ^[\w.\-]+-(\d{4}\.\d{2}\.\d{2})$
IndexRegexCaptureMutAnyStart(text) ==
    IF /\ Len(text) >= 12
       /\ \A i \in 1..(Len(text) - 11) : IsNameChar(text[i])
       /\ text[Len(text) - 10] = "-"
       /\ MatchesDatePattern(SubSeq(text, Len(text) - 9, Len(text)))
    THEN Some(SubSeq(text, Len(text) - 9, Len(text)))
    ELSE None

\* INDEX_REGEX.captures: ^\w[\w.\-]+-(\d{4}\.\d{2}\.\d{2})$
IndexRegexCapture(text) ==
    IF /\ Len(text) >= 13
       /\ IsWord(text[1])
       /\ \A i \in 2..(Len(text) - 11) : IsNameChar(text[i])
       /\ text[Len(text) - 10] = "-"
       /\ MatchesDatePattern(SubSeq(text, Len(text) - 9, Len(text)))
    THEN Some(SubSeq(text, Len(text) - 9, Len(text)))
    ELSE None

created_date(index) ==
    IF IsSome(IndexRegexCapture(index)) THEN ParseDate(Unwrap(IndexRegexCapture(index)))
    ELSE None

\* index, action_index and trace_index
IndexPrefixes == {<<"s", "t", "a", "t">>, <<"a", "c", "t", "i", "o", "n">>,
                  <<"t", "r", "a", "c", "e">>}

BuildIndex(prefix, date) == prefix \o <<"-">> \o FormatDate(date)

\* the dates, the prefixes, the date texts and the endings tried
Dates ==
    {date \in [y : {2024, 2025, 9999, 10000}, m : {1, 2, 11, 12}, d : {1, 5, 29, 31}] :
        IsDate(date.y, date.m, date.d)}

NamePrefixes ==
    IndexPrefixes \cup {<<"a">>, <<"a", "b">>, <<"a", ".", "b">>, <<".", "k", "i", "b">>,
                        <<".", "d", "s", "-", "x">>, <<"a", " ", "b">>, <<>>}

DateTexts ==
    {FormatDate(date) : date \in {x \in Dates : x.m = 11 /\ x.y \in {2025, 10000}}}
        \cup {<<"2", "0", "2", "5", ".", "1", "3", ".", "0", "1">>,
              <<"2", "0", "2", "5", ".", "0", "2", ".", "3", "0">>,
              <<"2", "0", "2", "5", ".", "1", ".", "0", "5">>}

NameEndings == {<<>>, <<"-", "0", "0", "0", "0", "0", "1">>, <<"x">>}

IndexInit ==
    /\ indexDate = None
    /\ indexName = None
    /\ createdDate = None

\* created_date(name) for a name found in the cluster
CreatedDateOfName(prefix, text, ending) ==
    /\ indexDate' = None
    /\ indexName' = Some(prefix \o <<"-">> \o text \o ending)
    /\ createdDate' = created_date(prefix \o <<"-">> \o text \o ending)

\* created_date(name) for a name one of the handlers built
CreatedDateOfIndex(prefix, date) ==
    /\ indexDate' = Some(date)
    /\ indexName' = Some(BuildIndex(prefix, date))
    /\ createdDate' = created_date(BuildIndex(prefix, date))

TraceInit == emitted = <<>>

Init ==
    /\ LogInit /\ ConsumerInit /\ SchedulerInit /\ TrackerInit /\ TriggerInit
    /\ BroadcastInit /\ IndexInit /\ TraceInit

\* ------------------------------------------------------ specifications
\* the logging layer under tasks that start actions, spans and tasks
Next ==
    \/ \E t \in Tasks : Len(spans) < MaxSpans /\ StartAction(t) /\ UNCHANGED restVars
    \/ \E t \in Tasks, res \in {Ok} \cup {Err(e) : e \in Exceptions} :
           EndAction(t, res) /\ UNCHANGED restVars
    \/ \E t \in Tasks, ev \in Events :
           TotalRouted < MaxEvents /\ LogEvent(t, ev) /\ UNCHANGED restVars
    \/ \E t \in Tasks, name \in SpanNames :
           Len(spans) < MaxSpans /\ EnterSpan(t, name) /\ UNCHANGED restVars
    \/ \E t \in Tasks : ExitSpan(t) /\ UNCHANGED restVars
    \/ \E t, u \in Tasks : SpawnTask(t, u) /\ UNCHANGED restVars
    \/ \E t, u \in Tasks : SpawnAction(t, u) /\ UNCHANGED restVars
    \/ \E u \in Tasks :
           Len(spans) < MaxSpans /\ RunSpawnedAction(u) /\ UNCHANGED restVars
    \/ \E t \in Tasks : TaskFinish(t) /\ UNCHANGED restVars

Spec == Init /\ [][Next]_vars

\* one task with the clock running: one action, spans of two names inside
\* and outside it, and "stats" events on the keys the layer itself writes
MaxTimedSpans == 3
MaxTimedEvents == 2

TimedSpanNames == {"db", "http"}

StatsEvent(name, type, value) ==
    [level |-> "DEBUG", msg |-> StatsText,
     fields |-> <<[name |-> name, type |-> type, value |-> value]>>]

ContextEvent(fields) == [level |-> "DEBUG", msg |-> ContextText, fields |-> fields]

TimedEvents ==
    {StatsEvent("elapsed", "i64", 5), StatsEvent("db_count", "i64", 2),
     StatsEvent("db_elapsed", "i64", 3), [level |-> "WARN", msg |-> Boom, fields |-> <<>>]}

\* the clock reading at which each span was created and at which its last
\* handle was dropped
TrackLifetimes ==
    lifetimes' = [s \in 1..Len(spans') |->
                     IF s > Len(spans) THEN [open |-> now, close |-> None]
                     ELSE IF spans[s].refs > 0 /\ spans'[s].refs = 0
                          THEN [lifetimes[s] EXCEPT !.close = Some(now)]
                          ELSE lifetimes[s]]

NextTimed ==
    \/ /\ Len(spans) < MaxTimedSpans
       /\ ids = 0
       /\ StartAction(1)
       /\ TrackLifetimes /\ UNCHANGED otherVars
    \/ EndAction(1, Ok) /\ TrackLifetimes /\ UNCHANGED otherVars
    \/ \E ev \in TimedEvents :
           TotalRouted < MaxTimedEvents /\ LogEvent(1, ev) /\ TrackLifetimes /\ UNCHANGED otherVars
    \/ \E name \in TimedSpanNames :
           Len(spans) < MaxTimedSpans /\ EnterSpan(1, name) /\ TrackLifetimes /\ UNCHANGED otherVars
    \/ ExitSpan(1) /\ TrackLifetimes /\ UNCHANGED otherVars
    \/ Tick /\ TrackLifetimes /\ UNCHANGED otherVars

SpecTimed == Init /\ [][NextTimed]_vars

\* one task logging events with numeric fields of every kind, repeated
\* context keys and long messages inside one action
MaxFieldEvents == 3

LongAscii == [i \in 1..MaxErrorMessage + 1 |-> "a"]

WideInside == [i \in 1..MaxErrorMessage |-> IF i = 1 THEN Wide ELSE "a"]

WideAtBoundary == [i \in 1..MaxErrorMessage + 1 |-> IF i = MaxErrorMessage THEN Wide ELSE "a"]

FieldEvents ==
    {StatsEvent("n", "i64", 3), StatsEvent("n", "i64", 4), StatsEvent("n", "i64", -1),
     StatsEvent("n", "f64", <<3, 2>>), StatsEvent("m", "u64", 1),
     ContextEvent(<<[name |-> "k", type |-> "str", value |-> "v"],
                    [name |-> "j", type |-> "str", value |-> "x"]>>),
     ContextEvent(<<[name |-> "k", type |-> "str", value |-> "w"]>>),
     ContextEvent(<<[name |-> "c", type |-> "i64", value |-> 7],
                    [name |-> "d", type |-> "debug", value |-> "true"]>>),
     [level |-> "WARN", msg |-> Boom, fields |-> <<>>],
     [level |-> "ERROR", msg |-> LongAscii, fields |-> <<>>],
     [level |-> "ERROR", msg |-> WideInside, fields |-> <<>>],
     [level |-> "ERROR", msg |-> WideAtBoundary, fields |-> <<>>]}

NextFields ==
    \/ ids = 0 /\ StartAction(1) /\ UNCHANGED restVars
    \/ \E res \in {Ok, Err([severity |-> "Error", code |-> None, message |-> Boom])} :
           EndAction(1, res) /\ UNCHANGED restVars
    \/ \E ev \in FieldEvents :
           TotalRouted < MaxFieldEvents /\ LogEvent(1, ev) /\ UNCHANGED restVars
    \/ \E ev \in FieldEvents :
           TotalRouted < MaxFieldEvents /\ LogEventPanic(1, ev) /\ UNCHANGED restVars

SpecFields == Init /\ [][NextFields]_vars

\* one task that nests actions and spans and logs inside and outside them
MaxNestedSpans == 3
MaxNestedEvents == 2

NestedEvents ==
    {[level |-> "DEBUG", msg |-> Boom, fields |-> <<>>],
     [level |-> "WARN", msg |-> Bang, fields |-> <<>>],
     StatsEvent("n", "i64", 3)}

NextNested ==
    \/ Len(spans) < MaxNestedSpans /\ StartAction(1) /\ UNCHANGED restVars
    \/ EndAction(1, Ok) /\ UNCHANGED restVars
    \/ \E ev \in NestedEvents :
           TotalRouted < MaxNestedEvents /\ LogEvent(1, ev) /\ UNCHANGED restVars
    \/ Len(spans) < MaxNestedSpans /\ EnterSpan(1, "db") /\ UNCHANGED restVars
    \/ ExitSpan(1) /\ UNCHANGED restVars

SpecNested == Init /\ [][NextNested]_vars

\* one fixed rate schedule, its jobs and the clock
MaxSchedTime == 6
MaxJobs == 3

NextScheduler ==
    \/ SchedulerNew(0) /\ UNCHANGED exceptTrigger
    \/ schedule_fixed_rate(JobInterval) /\ UNCHANGED exceptTrigger
    \/ now + initial_delay <= MaxSchedTime /\ SchedStart /\ UNCHANGED exceptScheduler
    \/ SchedDelay /\ UNCHANGED exceptScheduler
    \/ SchedNext /\ UNCHANGED exceptScheduler
    \/ Len(jobs) < MaxJobs /\ SchedFire /\ UNCHANGED exceptScheduler
    \/ SchedShutdown /\ UNCHANGED exceptScheduler
    \/ SchedStartReturn /\ UNCHANGED exceptScheduler
    \/ SchedSendShutdown /\ UNCHANGED exceptScheduler
    \/ now < MaxSchedTime /\ SchedTick /\ UNCHANGED exceptScheduler
    \/ \E j \in 1..MaxJobs : JobBegin(j) /\ UNCHANGED exceptScheduler
    \/ \E j \in 1..MaxJobs, res \in JobResults :
           JobEnd(j, res) /\ UNCHANGED exceptScheduler

SpecScheduler == Init /\ [][NextScheduler]_vars

\* the schedule's loop alone, its jobs left unpolled; the runtime polls a
\* task that can go on and time passes
NextSchedulerLoop ==
    \/ \E tz \in {0, 1} : SchedulerNew(tz) /\ UNCHANGED exceptTrigger
    \/ \E interval \in 0..JobInterval :
           schedule_fixed_rate(interval) /\ UNCHANGED exceptTrigger
    \/ \E time \in TimesOfDay : schedule_daily(time) /\ UNCHANGED exceptTrigger
    \/ now + initial_delay <= MaxSchedTime /\ SchedStart /\ UNCHANGED exceptScheduler
    \/ SchedDelay /\ UNCHANGED exceptScheduler
    \/ SchedNext /\ UNCHANGED exceptScheduler
    \/ Len(jobs) < MaxJobs /\ SchedFire /\ UNCHANGED exceptScheduler
    \/ SchedShutdown /\ UNCHANGED exceptScheduler
    \/ SchedStartReturn /\ UNCHANGED exceptScheduler
    \/ SchedSendShutdown /\ UNCHANGED exceptScheduler
    \/ now < MaxSchedTime /\ SchedTick /\ UNCHANGED exceptScheduler

SpecSchedulerLoop ==
    /\ Init
    /\ [][NextSchedulerLoop]_vars
    /\ WF_vars(\E tz \in {0, 1} : SchedulerNew(tz) /\ UNCHANGED exceptTrigger)
    /\ WF_vars(\/ \E interval \in 0..JobInterval :
                      schedule_fixed_rate(interval) /\ UNCHANGED exceptTrigger
               \/ \E time \in TimesOfDay : schedule_daily(time) /\ UNCHANGED exceptTrigger)
    /\ WF_vars(now + initial_delay <= MaxSchedTime /\ SchedStart /\ UNCHANGED exceptScheduler)
    /\ WF_vars(SchedDelay /\ UNCHANGED exceptScheduler)
    /\ WF_vars(SchedNext /\ UNCHANGED exceptScheduler)
    /\ WF_vars(Len(jobs) < MaxJobs /\ SchedFire /\ UNCHANGED exceptScheduler)
    /\ WF_vars(SchedShutdown /\ UNCHANGED exceptScheduler)
    /\ WF_vars(SchedStartReturn /\ UNCHANGED exceptScheduler)
    /\ WF_vars(now < MaxSchedTime /\ SchedTick /\ UNCHANGED exceptScheduler)

\* a scheduler with one daily trigger, asked for its next instant
NextTrigger ==
    \/ \E tz \in Offsets : SchedulerNew(tz) /\ UNCHANGED exceptTrigger
    \/ \E time \in TimesOfDay : schedule_daily(time) /\ UNCHANGED exceptTrigger
    \/ \E prev \in Instants : TriggerNext(prev) /\ UNCHANGED exceptTrigger

SpecTrigger == Init /\ [][NextTrigger]_vars

\* tasks that spawn tracked tasks while another task calls task::shutdown
ShutdownEvents == {[level |-> "INFO", msg |-> Bang, fields |-> <<>>]}

NextShutdown ==
    \/ \E t \in Tasks :
           Len(spans) < MaxSpans /\ StartAction(t) /\ UNCHANGED <<trackerVars, exceptTracker>>
    \/ \E t \in Tasks : EndAction(t, Ok) /\ UNCHANGED <<trackerVars, exceptTracker>>
    \/ \E t \in Tasks, ev \in ShutdownEvents :
           TotalRouted < MaxEvents /\ LogEvent(t, ev) /\ UNCHANGED <<trackerVars, exceptTracker>>
    \/ \E t, u \in Tasks : SpawnTask(t, u) /\ UNCHANGED <<trackerVars, exceptTracker>>
    \/ \E t, u \in Tasks : SpawnAction(t, u) /\ UNCHANGED <<trackerVars, exceptTracker>>
    \/ \E u \in Tasks :
           Len(spans) < MaxSpans /\ RunSpawnedAction(u) /\ UNCHANGED <<trackerVars, exceptTracker>>
    \/ \E t \in Tasks : TaskFinish(t) /\ UNCHANGED <<trackerVars, exceptTracker>>
    \/ ShutdownBegin /\ UNCHANGED exceptTracker
    \/ ShutdownWaitDone /\ UNCHANGED exceptTracker
    \/ ShutdownReturn /\ UNCHANGED exceptTracker

SpecShutdown == Init /\ [][NextShutdown]_vars

\* the broadcast and the receivers main has handed to its loops
MaxSends == 3
MaxChecks == 3

NextBroadcast ==
    \/ sends < MaxSends /\ ShutdownSend /\ UNCHANGED exceptBroadcast
    \/ HttpRecv /\ UNCHANGED exceptBroadcast
    \/ (rx["consumer"].pending > 0 \/ rx["consumer"].checks < MaxChecks)
           /\ ConsumerTryRecv /\ UNCHANGED exceptBroadcast

\* a woken recv() is polled, and the consumer's loop reaches the end of
\* its iteration
SpecBroadcast ==
    /\ Init
    /\ [][NextBroadcast]_vars
    /\ WF_vars(HttpRecv /\ UNCHANGED exceptBroadcast)
    /\ WF_vars(rx["consumer"].pending > 0 /\ ConsumerTryRecv /\ UNCHANGED exceptBroadcast)

\* created_date applied to names found and to names built
NextIndex ==
    \/ \E prefix \in NamePrefixes, text \in DateTexts, ending \in NameEndings :
           CreatedDateOfName(prefix, text, ending) /\ UNCHANGED exceptIndex
    \/ \E prefix \in IndexPrefixes, date \in Dates :
           CreatedDateOfIndex(prefix, date) /\ UNCHANGED exceptIndex

SpecIndex == Init /\ [][NextIndex]_vars

\* the Kafka consumer: MessageConsumer::start with one handler and one
\* bulk handler
NextConsumer ==
    \/ \E topic \in Topics, key \in Keys : PollMessage(topic, key) /\ UNCHANGED exceptConsumer
    \/ \E d \in 1..poll_max_wait_time : PollNone(d) /\ UNCHANGED exceptConsumer
    \/ PollError /\ UNCHANGED exceptConsumer
    \/ Dispatch /\ UNCHANGED exceptConsumer
    \/ \E topic \in Topics : HandleMessages(topic) /\ UNCHANGED exceptConsumer
    \/ \E k \in 1..poll_max_records : SubBegin(k) /\ UNCHANGED exceptConsumer
    \/ \E k \in 1..poll_max_records, res \in HandlerResults : SubEnd(k, res) /\ UNCHANGED exceptConsumer
    \/ \E topic \in Topics : HandleJoin(topic) /\ UNCHANGED exceptConsumer
    \/ \E topic \in Topics : BulkBegin(topic) /\ UNCHANGED exceptConsumer
    \/ \E topic \in Topics, res \in HandlerResults : BulkEnd(topic, res) /\ UNCHANGED exceptConsumer
    \/ \E ok \in BOOLEAN : Commit(ok) /\ UNCHANGED exceptConsumer
    \/ Sleep /\ UNCHANGED exceptConsumer
    \/ CheckShutdown /\ UNCHANGED exceptConsumer
    \/ SendShutdown /\ UNCHANGED exceptConsumer

SpecConsumer == Init /\ [][NextConsumer]_vars

\* the consumer's loop with unkeyed messages; the runtime polls a task that
\* can go on, consumer.poll returns, and handlers return
PollStep ==
    \/ \E topic \in Topics : PollMessage(topic, None) /\ UNCHANGED exceptConsumer
    \/ \E d \in 1..poll_max_wait_time : PollNone(d) /\ UNCHANGED exceptConsumer
    \/ PollError /\ UNCHANGED exceptConsumer
    \/ Dispatch /\ UNCHANGED exceptConsumer

\* a handler wrapper that has been spawned starts its action
BeginStep ==
    \/ \E k \in 1..poll_max_records : SubBegin(k) /\ UNCHANGED exceptConsumer
    \/ \E topic \in Topics : BulkBegin(topic) /\ UNCHANGED exceptConsumer

\* a wrapper can start its action: the guards of SubBegin and BulkBegin
CanBegin ==
    \/ \E k \in 1..Len(subTasks) :
           subTasks[k].span = NoSpan /\ subTasks[k].done < Len(subTasks[k].msgs)
    \/ \E topic \in Topics :
           topicTasks[topic].st = "spawned" /\ HandlerKind(topic) = "bulk"

HandlerStep ==
    \/ \E topic \in Topics : HandleMessages(topic) /\ UNCHANGED exceptConsumer
    \/ \E k \in 1..poll_max_records, res \in HandlerResults :
           SubEnd(k, res) /\ UNCHANGED exceptConsumer
    \/ \E topic \in Topics : HandleJoin(topic) /\ UNCHANGED exceptConsumer
    \/ \E topic \in Topics, res \in HandlerResults :
           BulkEnd(topic, res) /\ UNCHANGED exceptConsumer

LoopStep ==
    \/ \E ok \in BOOLEAN : Commit(ok) /\ UNCHANGED exceptConsumer
    \/ Sleep /\ UNCHANGED exceptConsumer
    \/ CheckShutdown /\ UNCHANGED exceptConsumer

NextConsumerLoop ==
    \/ PollStep
    \/ BeginStep
    \/ HandlerStep
    \/ LoopStep
    \/ SendShutdown /\ UNCHANGED exceptConsumer

\* weak fairness of each group of steps; that of BeginStep is written out,
\* with CanBegin for its enabling condition
SpecConsumerLoop ==
    /\ Init
    /\ [][NextConsumerLoop]_vars
    /\ WF_vars(PollStep)
    /\ WF_vars(HandlerStep)
    /\ WF_vars(LoopStep)
    /\ ([]<>(~CanBegin) \/ []<><<BeginStep>>_vars)

\* ------------------------------------------------------------ properties
Severity(ev) ==
    IF ev.level = "ERROR" THEN 2 ELSE IF ev.level = "WARN" THEN 1 ELSE 0

RECURSIVE MaxSeverity(_)
MaxSeverity(h) ==
    IF h = <<>> THEN 0
    ELSE LET m == MaxSeverity(Tail(h))
         IN IF Severity(Head(h)) > m THEN Severity(Head(h)) ELSE m

ActionSpans == {s \in 1..Len(spans) : spans[s].name = "action"}

RecordsOf(s) == {i \in 1..Len(appended) : appended[i].span = s}

RECURSIVE IsUnder(_, _)
IsUnder(b, s) ==
    IF b = NoSpan THEN FALSE
    ELSE IF b = s THEN TRUE
    ELSE IsUnder(spans[b].parent, s)

\* a running task started with spawn_task under span s
HeldBySpawnedTask(s) ==
    \E u \in Tasks :
        tasks[u].st = "run" /\ tasks[u].kind = "task" /\ IsUnder(tasks[u].base, s)

\* C2 as stated: once start_action has returned, append has been called
\* exactly once with the action's Record.
C2_EmittedByReturn ==
    \A s \in ActionSpans : IsSome(returned[s]) => Cardinality(RecordsOf(s)) = 1

\* C2 amended: append is called at most once per action, and it has been
\* called exactly when start_action has returned and no task started with
\* spawn_task under the action's span is still running.
C2_EmittedOnceWhenReleased ==
    \A s \in ActionSpans :
        /\ Cardinality(RecordsOf(s)) <= 1
        /\ Cardinality(RecordsOf(s)) = 1
               <=> (IsSome(returned[s]) /\ ~HeldBySpawnedTask(s))

C2_Witness ==
    \E s \in ActionSpans, u \in Tasks :
        /\ IsSome(returned[s])
        /\ ~Unwrap(returned[s]).ok
        /\ tasks[u].st = "done" /\ tasks[u].kind = "task" /\ tasks[u].base = s
        /\ Cardinality(RecordsOf(s)) = 1

\* the lines of action span s after a step: its live log, or the trace of
\* the Record just emitted without the footer
LinesAfter(s) ==
    IF IsSome(spans'[s].log) THEN Unwrap(spans'[s].log).logs
    ELSE LET tr == Unwrap(appended'[Len(appended')].msg.trace)
         IN SubSeq(tr, 1, Len(tr) - 1)

ResultAfter(s) ==
    IF IsSome(spans'[s].log) THEN Unwrap(spans'[s].log).result
    ELSE appended'[Len(appended')].msg.result

ExceptionSeverity(e) == IF e.severity = "Warn" THEN 1 ELSE 2

C6_ResultMonotone ==
    [][\A s \in 1..Len(spans) :
           (IsSome(spans[s].log) /\ IsSome(spans'[s].log))
           => ResultLevel(Unwrap(spans'[s].log).result)
                  >= ResultLevel(Unwrap(spans[s].log).result)]_logVars

C6_Witness ==
    \E s \in 1..Len(spans) :
        /\ IsSome(spans[s].log)
        /\ Unwrap(spans[s].log).result = "ERROR"
        /\ Len(history[s]) >= 2
        /\ Severity(history[s][1]) = 2
        /\ Severity(history[s][2]) = 1

\* the error fields are those of the first event of h at the severity of
\* result, and absent when result is OK
ErrorFieldsFromFirst(result, code, message, h) ==
    IF result = "OK" THEN code = None /\ message = None
    ELSE \E i \in 1..Len(h) :
            /\ Severity(h[i]) = ResultLevel(result)
            /\ \A j \in 1..(i - 1) : Severity(h[j]) # ResultLevel(result)
            /\ code = (IF \E k \in 1..Len(h[i].fields) : h[i].fields[k].name = "error_code"
                       THEN Some(h[i].fields[CHOOSE k \in 1..Len(h[i].fields) :
                                                 h[i].fields[k].name = "error_code"].value)
                       ELSE None)
            /\ message = Some(h[i].msg)

\* C7: error_code and error_message are those of the first event whose
\* severity equals the result, in every live action and every emitted
\* Record: a later event of equal or lower severity changes neither.
C7_ErrorFieldsOfFirstHighest ==
    /\ \A s \in 1..Len(spans) :
           IsSome(spans[s].log)
           => LET al == Unwrap(spans[s].log)
              IN ErrorFieldsFromFirst(al.result, al.error_code, al.error_message, history[s])
    /\ \A i \in 1..Len(appended) :
           LET m == appended[i].msg
           IN ErrorFieldsFromFirst(m.result, m.error_code, m.error_message,
                                   history[appended[i].span])

C7_Witness ==
    \E i \in 1..Len(appended) :
        LET h == history[appended[i].span]
        IN /\ Len(h) >= 2
           /\ Severity(h[1]) = 1 /\ Severity(h[2]) = 1
           /\ ErrorVisitorCode(h[1]) # ErrorVisitorCode(h[2])
           /\ h[1].msg # h[2].msg
           /\ appended[i].msg.result = "WARN"
           /\ appended[i].msg.error_code = ErrorVisitorCode(h[1])

\* C8: an emitted Record has a trace if and only if its result is not OK.
C8_TraceIffNotOk ==
    \A i \in 1..Len(appended) :
        IsSome(appended[i].msg.trace) <=> appended[i].msg.result # "OK"

C8_Witness ==
    \E i, j \in 1..Len(appended) :
        /\ appended[i].msg.result = "OK" /\ appended[i].msg.trace = None
        /\ appended[j].msg.result # "OK" /\ IsSome(appended[j].msg.trace)


\* ------------------------------------------------- properties, consumer
Range(q) == {q[i] : i \in 1..Len(q)}

\* offsets whose user handler call has started
Started == UNION {Range(calls[i].offsets) : i \in 1..Len(calls)}

\* C4: on the single-message path, of two messages of a batch with the
\* same key the later one is given to the handler only after the action
\* of the earlier one has finished (batches follow one another, so this
\* is stated over all the messages handed to the wrapper)
C4_PerKeySequential ==
    \A i, j \in 1..Len(fetched) :
        (/\ i < j
         /\ fetched[i].topic = fetched[j].topic
         /\ fetched[i].topic \in SingleTopics
         /\ IsSome(fetched[i].key)
         /\ fetched[i].key = fetched[j].key
         /\ i \in wrapped
         /\ j \in Started)
        => (i \in finished
            /\ \E r \in 1..Len(appended) : \E c \in 1..Len(created) :
                   /\ created[c].offsets = <<i>>
                   /\ appended[r].msg.id = created[c].action_id)

\* three messages of one batch with key A, the first two handled and the
\* third being handled
C4_Witness ==
    /\ topicTasks["orders"].st = "join"
    /\ Len(topicTasks["orders"].msgs) = 3
    /\ \A k \in 1..3 : topicTasks["orders"].msgs[k].key = Some("A")
    /\ Cardinality(Range(OffsetsOf(topicTasks["orders"].msgs)) \cap finished) = 2
    /\ Range(OffsetsOf(topicTasks["orders"].msgs)) \subseteq Started

\* C5: every committed offset belongs to a message that was handed to the
\* handler wrapper of its topic
C5_CommittedOnlyAfterWrapper ==
    \A o \in 1..committed : o \in wrapped

\* the "message" actions created for the messages ms of a topic
MessageActions(topic, ms) ==
    {c \in 1..Len(created) :
        /\ created[c].action = "message"
        /\ created[c].topic = topic
        /\ Range(created[c].offsets) \cap Range(OffsetsOf(ms)) # {}}

HandlerCalls(topic, ms) ==
    {c \in 1..Len(calls) :
        /\ calls[c].topic = topic
        /\ Range(calls[c].offsets) \cap Range(OffsetsOf(ms)) # {}}

\* C9: on the bulk path, once the task of a (topic, batch) pair has
\* called the handler there is exactly one "message" action for the pair
\* and exactly one handler call, made inside that action with all the
\* topic's messages of the batch; before, there is none
C9_BulkOneActionOneCall ==
    \A topic \in BulkTopics :
            LET ms == topicTasks[topic].msgs
                mine == MessageActions(topic, ms)
                mycalls == HandlerCalls(topic, ms)
            IN /\ topicTasks[topic].st = "spawned" => mine = {} /\ mycalls = {}
               /\ topicTasks[topic].st \in {"action", "done"} =>
                      /\ Cardinality(mine) = 1
                      /\ Cardinality(mycalls) = 1
                      /\ \A c \in mine : \A d \in mycalls :
                             /\ created[c].offsets = OffsetsOf(ms)
                             /\ calls[d].offsets = OffsetsOf(ms)
                             /\ calls[d].action_id = created[c].action_id

\* a bulk batch of two messages has been handled
C9_Witness ==
    /\ topicTasks["events"].st = "done"
    /\ Len(topicTasks["events"].msgs) = 2
    /\ \E c \in 1..Len(calls) : calls[c].topic = "events" /\ Len(calls[c].offsets) = 2

RECURSIVE KeysOf(_)
KeysOf(ms) ==
    IF ms = <<>> THEN {}
    ELSE (IF IsSome(Head(ms).key) THEN {Head(ms).key} ELSE {}) \cup KeysOf(Tail(ms))

Unkeyed(ms) == {k \in 1..Len(ms) : ~IsSome(ms[k].key)}

RECURSIVE EnclosingAction(_)
EnclosingAction(s) ==
    IF s = NoSpan THEN NoSpan
    ELSE IF spans[s].name = "action" THEN s
    ELSE EnclosingAction(spans[s].parent)

\* the spans named S that were opened and closed inside action a
ClosedPairs(a, S) ==
    {s \in 1..Len(spans) :
        /\ spans[s].name = S
        /\ EnclosingAction(s) = a
        /\ IsSome(lifetimes[s].close)}

RECURSIVE SumElapsed(_)
SumElapsed(ss) ==
    IF ss = {} THEN 0
    ELSE LET s == CHOOSE x \in ss : TRUE
         IN (Unwrap(lifetimes[s].close) - lifetimes[s].open) + SumElapsed(ss \ {s})

\* the value of a key of an IndexMap, None when the key is absent
Lookup(m, key) ==
    LET at == {i \in 1..Len(m) : m[i].k = key}
    IN IF at = {} THEN None ELSE Some(m[CHOOSE i \in at : TRUE].v)

\* the sum of the values the "stats" events of evs carry in fields named key
RECURSIVE SumField(_, _)
SumField(evs, key) ==
    IF evs = <<>> THEN 0
    ELSE LET ev == Head(evs)
             at == {i \in 1..Len(ev.fields) : ev.fields[i].name = key}
             RECURSIVE Sum(_)
             Sum(is) == IF is = {} THEN 0
                        ELSE LET i == CHOOSE x \in is : TRUE
                             IN ev.fields[i].value + Sum(is \ {i})
         IN (IF ev.msg = StatsText THEN Sum(at) ELSE 0) + SumField(Tail(evs), key)

TwiceValue(f) == IF f.type = "f64" THEN f.value[1] * (2 \div f.value[2]) ELSE 2 * f.value

\* twice the sum of the numbers the "stats" events of evs carry in fields
\* named key
RECURSIVE SumTwice(_, _)
SumTwice(evs, key) ==
    IF evs = <<>> THEN 0
    ELSE LET ev == Head(evs)
             at == {i \in 1..Len(ev.fields) : ev.fields[i].name = key /\ IsNumeric(ev.fields[i])}
             RECURSIVE Sum(_)
             Sum(is) == IF is = {} THEN 0
                        ELSE LET i == CHOOSE x \in is : TRUE
                             IN TwiceValue(ev.fields[i]) + Sum(is \ {i})
         IN (IF ev.msg = StatsText THEN Sum(at) ELSE 0) + SumTwice(Tail(evs), key)

HasStatsField(evs, key) ==
    \E i \in 1..Len(evs) :
        /\ evs[i].msg = StatsText
        /\ \E j \in 1..Len(evs[i].fields) :
               evs[i].fields[j].name = key /\ IsNumeric(evs[i].fields[j])

\* C12: for any sequence of "stats" events of an action, stats[k] of its
\* Record is the sum of all the numeric values the events carry under the
\* field k
C12_StatsAreSums ==
    \A i \in 1..Len(appended) : \A key \in {"n", "m"} :
        LET evs == history[appended[i].span]
            v == Lookup(appended[i].msg.stats, key)
        IN HasStatsField(evs, key) => IsSome(v) /\ 2 * Unwrap(v) = SumTwice(evs, key)

\* the fields of the "context" events of evs, in the order they were visited
RECURSIVE ContextFields(_)
ContextFields(evs) ==
    IF evs = <<>> THEN <<>>
    ELSE (IF Head(evs).msg = ContextText /\ Head(evs).level # "TRACE"
          THEN Head(evs).fields ELSE <<>>) \o ContextFields(Tail(evs))

\* the positions of fs at which a field name occurs for the first time
FirstOccurrences(fs) == {i \in 1..Len(fs) : \A j \in 1..(i - 1) : fs[j].name # fs[i].name}

\* the text a field shows in the context
FieldText(f) == IF IsNumeric(f) THEN ToString(f.value) ELSE f.value

\* the ActionLog or Record of every action span that has one
ContextOf(a) ==
    IF IsSome(spans[a].log) THEN Some(Unwrap(spans[a].log).context)
    ELSE LET at == {i \in 1..Len(appended) : appended[i].span = a}
         IN IF at = {} THEN None ELSE Some(appended[CHOOSE i \in at : TRUE].msg.context)

\* C13: every field of a "context" event is a context entry, the keys are
\* in the order of their first insertion, and each key holds the value of
\* its last insertion
C13_ContextInsertionOrder ==
    \A a \in 1..Len(spans) :
        IsSome(ContextOf(a)) =>
            LET fs == ContextFields(history[a])
                first == FirstOccurrences(fs)
                ctx == Unwrap(ContextOf(a))
            IN /\ Len(ctx) = Cardinality(first)
               /\ \A p \in 1..Len(ctx) :
                      \E i \in first :
                          /\ Cardinality({j \in first : j <= i}) = p
                          /\ ctx[p].k = fs[i].name
                          /\ LET last == CHOOSE l \in 1..Len(fs) :
                                             /\ fs[l].name = fs[i].name
                                             /\ \A m \in (l + 1)..Len(fs) : fs[m].name # fs[i].name
                             IN ctx[p].v = FieldText(fs[last])

\* an action whose context had k = v, j = x and then got k = w
C13_Witness ==
    \E a \in 1..Len(spans) :
        /\ IsSome(ContextOf(a))
        /\ Unwrap(ContextOf(a)) = <<[k |-> "k", v |-> "w"], [k |-> "j", v |-> "x"]>>

\* ---------------------------------------------- properties, stats["elapsed"]
\* the time between the creation of span a and the drop of its last handle
Duration(a) == Unwrap(lifetimes[a].close) - lifetimes[a].open

\* C14 as stated: stats["elapsed"] is written once, at close, and equals
\* the action's duration; before close no ActionLog has that key
C14_ElapsedOnlyAtClose ==
    /\ \A a \in 1..Len(spans) :
           IsSome(spans[a].log) => Lookup(Unwrap(spans[a].log).stats, "elapsed") = None
    /\ \A i \in 1..Len(appended) :
           Lookup(appended[i].msg.stats, "elapsed") = Some(Duration(appended[i].span))

\* C14, amended: the Record's stats["elapsed"] is the action's duration,
\* whatever the key held before close; before close no span transition
\* creates or changes the key, and only a "stats" event with a field named
\* elapsed does, by adding its value
C14_ElapsedSetAtClose ==
    /\ \A a \in 1..Len(spans) :
           IsSome(spans[a].log) =>
               Lookup(Unwrap(spans[a].log).stats, "elapsed")
                   = IF HasStatsField(history[a], "elapsed")
                     THEN Some(SumField(history[a], "elapsed"))
                     ELSE None
    /\ \A i \in 1..Len(appended) :
           /\ Lookup(appended[i].msg.stats, "elapsed") = Some(Duration(appended[i].span))
           /\ Cardinality({j \in 1..Len(appended[i].msg.stats) :
                              appended[i].msg.stats[j].k = "elapsed"}) = 1

\* a Record of an action that took two ticks, had a span closed inside it
\* and got a "stats" event with elapsed = 5 before close
C14_Witness ==
    \E i \in 1..Len(appended) :
        LET a == appended[i].span
        IN /\ Duration(a) = 2
           /\ HasStatsField(history[a], "elapsed")
           /\ ClosedPairs(a, "db") # {}
           /\ Lookup(appended[i].msg.stats, "elapsed") = Some(2)

\* ---------------------------------------------- properties, error_message
\* the message cut to its first MaxErrorMessage characters
CharacterPrefix(text) ==
    IF Len(text) <= MaxErrorMessage THEN text ELSE SubSeq(text, 1, MaxErrorMessage)

\* C15: a WARN/ERROR event that upgrades the result leaves error_message
\* equal to its message when that has at most MaxErrorMessage characters and
\* to its MaxErrorMessage-character prefix otherwise, and capturing the
\* message never panics
C15_MessageIsCharacterPrefix ==
    [][\A ev \in FieldEvents :
           (/\ ev.level \in {"WARN", "ERROR"}
            /\ Running(1)
            /\ action_span(spans, CurrentSpan(1)) # NoSpan
            /\ Severity(ev) > ResultLevel(Unwrap(spans[action_span(spans, CurrentSpan(1))].log).result))
           => /\ ~LogEventPanic(1, ev)
              /\ LogEvent(1, ev)
                     => Unwrap(spans'[action_span(spans, CurrentSpan(1))].log).error_message
                            = Some(CharacterPrefix(ev.msg))]_vars

\* ---------------------------------------------- properties, routing
\* no ActionLog other than that of span a changes, and no Record is emitted
OnlyLogChanged(a) ==
    /\ appended' = appended
    /\ \A s \in 1..Len(spans) : s # a => spans'[s].log = spans[s].log

\* an open span has an ActionLog exactly when it is an action span
OneLogPerAction ==
    \A s \in 1..Len(spans) :
        spans[s].refs > 0 => (IsSome(spans[s].log) <=> spans[s].name = "action")

\* C16: every open action span has one ActionLog and no other span has one;
\* an event, a new span and a closing span change the ActionLog of the
\* nearest enclosing action span only, and none when there is no such span
C16_RoutedToNearestAction ==
    [][/\ OneLogPerAction'
       /\ \A ev \in NestedEvents :
              LogEvent(1, ev) => OnlyLogChanged(EnclosingAction(CurrentSpan(1)))
       /\ EnterSpan(1, "db") => OnlyLogChanged(EnclosingAction(CurrentSpan(1)))
       /\ ExitSpan(1) => OnlyLogChanged(EnclosingAction(CurrentSpan(1)))]_vars

\* an action nested in another, with a span and an event inside it that
\* are in the inner ActionLog and not in the outer one
C16_Witness ==
    /\ Len(spans) = 3
    /\ spans[2].name = "action" /\ spans[2].parent = 1
    /\ spans[3].name = "db" /\ spans[3].parent = 2
    /\ IsSome(spans[1].log) /\ IsSome(spans[2].log)
    /\ Len(history[2]) > 0
    /\ Len(Unwrap(spans[1].log).logs) = 1
    /\ Len(Unwrap(spans[2].log).logs) >= 3

\* ---------------------------------------------- properties, scheduler
\* the Records emitted for the action span s
RecordsFor(s) == {i \in 1..Len(appended) : appended[i].span = s}

\* every finished job has one "job" Record, whose result is OK for Ok and
\* the exception's severity for Err
JobRecorded ==
    \A j \in 1..Len(jobs) :
        jobs[j].st = "done" =>
            /\ Cardinality(RecordsFor(jobs[j].span)) = 1
            /\ \A i \in RecordsFor(jobs[j].span) :
                   /\ appended[i].msg.action = "job"
                   /\ appended[i].msg.result
                          = LET res == Unwrap(returned[jobs[j].span])
                            IN IF res.ok THEN "OK"
                               ELSE IF res.e.severity = "Warn" THEN "WARN" ELSE "ERROR"

LocalTimeOfDay(x, tz) == (x + tz) % DayLen

\* C18: for the daily trigger, trigger.next(previous) is the smallest
\* instant at or after previous whose time of day in the scheduler's
\* timezone is the configured time of day
C18_DailyNextIsSmallest ==
    IsSome(triggerCall) =>
        LET c == Unwrap(triggerCall)
            tz == Unwrap(timezone)
            time == Unwrap(trigger).time
        IN /\ c.next >= c.previous
           /\ LocalTimeOfDay(c.next, tz) = time
           /\ \A x \in c.previous..(c.next - 1) : LocalTimeOfDay(x, tz) # time

\* a call in a timezone east of UTC whose local time of day is past the
\* configured one, answered with the configured time of the next local day
C18_Witness ==
    /\ IsSome(triggerCall)
    /\ Unwrap(timezone) = 2
    /\ Unwrap(trigger).time = 1
    /\ Unwrap(triggerCall).previous = 8
    /\ Unwrap(triggerCall).next = 11

\* ---------------------------------------------- properties, spawn_action
\* the spans of the actions whose bodies task t is running, outermost first
ActionFramesOf(t) ==
    SelectSeq(tasks[t].stack, LAMBDA frame : spans[frame.span].name = "action")

\* the id of the innermost of them, read from its ActionLog
InnermostActionId(t) ==
    IF ActionFramesOf(t) = <<>> THEN None
    ELSE Some(Unwrap(spans[ActionFramesOf(t)[Len(ActionFramesOf(t))].span].log).id)

\* C19: spawn_action captures as ref_id the id of the innermost action the
\* caller is running (none outside an action); the spawned task opens a new
\* root action named "task" with that ref_id, and no step of the spawned
\* task changes an ActionLog other than those of the actions it opened
C19_SpawnedActionIsNewAction ==
    [][\A t, u \in Tasks :
           /\ SpawnAction(t, u) => tasks'[u].ref = InnermostActionId(t)
           /\ RunSpawnedAction(u)
                  => /\ Len(spans') = Len(spans) + 1
                     /\ spans'[Len(spans')].name = "action"
                     /\ spans'[Len(spans')].parent = NoSpan
                     /\ Unwrap(spans'[Len(spans')].log).action = "task"
                     /\ Unwrap(spans'[Len(spans')].log).ref_id = tasks[u].ref
                     /\ \A s \in 1..Len(spans) : spans'[s] = spans[s]
           /\ (tasks[u].kind = "action" /\ \E ev \in Events : LogEvent(u, ev))
                  => /\ appended' = appended
                     /\ \A s \in 1..Len(spans) :
                            spans'[s].log # spans[s].log
                                => \E k \in 1..Len(tasks[u].stack) : tasks[u].stack[k].span = s]_vars

\* a task spawned inside action 1 whose Record is named "task", refers to
\* action 1 and holds the event of its body, while action 1 got no event
C19_Witness ==
    \E i \in 1..Len(appended) :
        /\ appended[i].msg.action = "task"
        /\ appended[i].span = 2
        /\ IsSome(spans[1].log)
        /\ appended[i].msg.ref_id = Some(Unwrap(spans[1].log).id)
        /\ Len(history[2]) = 2
        /\ history[1] = <<>>

\* ---------------------------------------------- properties, shutdown
\* C20: when task::shutdown returns, every task started with spawn_action
\* or spawn_task has finished, and every task started with spawn_action has
\* emitted the Record of its "task" action
C20_ReturnsAfterAllTasks ==
    [][(shutdownPc' = "returned" /\ shutdownPc # "returned")
          => \A u \in Tasks :
                 tasks[u].kind \in {"task", "action"}
                     => /\ tasks[u].st = "done"
                        /\ tasks[u].kind = "action"
                               => \E i \in 1..Len(appended) : appended[i].msg.action = "task"]_vars

\* ---------------------------------------------- properties, spawns after close
\* C21: once task::shutdown has closed the tracker, a spawn_action or
\* spawn_task call starts no task
C21_NoSpawnAfterClose ==
    [][trackerClosed
          => \A u \in Tasks : tasks[u].st = "none" => tasks'[u].st = "none"]_vars

C23_CurrentActionIsInnermost ==
    \A t \in Tasks :
        tasks[t].st = "run" =>
            /\ current_action_id(t) = InnermostActionId(t)
            /\ ActionFramesOf(t) = <<>> => current_action_id(t) = None

\* a task spawned with spawn_task inside action 1 that sees no id, while
\* the spawning task sees the id of action 1
C23_Witness ==
    /\ tasks[2].kind = "task" /\ tasks[2].st = "run" /\ tasks[2].base = 1
    /\ IsSome(spans[1].log)
    /\ current_action_id(2) = None
    /\ tasks[1].st = "run"
    /\ current_action_id(1) = Some(Unwrap(spans[1].log).id)

\* ---- C24: created_date and the index names ----

\* the name ends with -YYYY.MM.DD
EndsWithDate(name) ==
    /\ Len(name) >= 11
    /\ name[Len(name) - 10] = "-"
    /\ MatchesDatePattern(SubSeq(name, Len(name) - 9, Len(name)))

\* the name carries -YYYY.MM.DD and something after it
HasTextAfterDate(name) ==
    \E i \in 1..(Len(name) - 11) :
        /\ name[i] = "-"
        /\ MatchesDatePattern(SubSeq(name, i + 1, i + 10))

\* the date written at the end of the name
EncodedDate(name) ==
    [y |-> NumberOf(SubSeq(name, Len(name) - 9, Len(name) - 6)),
     m |-> NumberOf(SubSeq(name, Len(name) - 4, Len(name) - 3)),
     d |-> NumberOf(SubSeq(name, Len(name) - 1, Len(name)))]

EncodesDate(name) ==
    /\ EndsWithDate(name)
    /\ IsDate(EncodedDate(name).y, EncodedDate(name).m, EncodedDate(name).d)

\* C24, as stated: created_date returns the date encoded in a name
\* <prefix>-YYYY.MM.DD whose prefix starts with a word character, nothing for
\* a name that starts with "." or carries anything after the date, and for
\* every date d the names index(d), action_index(d) and trace_index(d) give d
C24_CreatedDateOfIndexName ==
    IsSome(indexName) =>
        LET name == Unwrap(indexName)
        IN /\ (EncodesDate(name) /\ Len(name) >= 12 /\ IsWord(name[1]))
                  => createdDate = Some(EncodedDate(name))
           /\ (name[1] = "." \/ HasTextAfterDate(name)) => createdDate = None
           /\ IsSome(indexDate) => createdDate = indexDate

\* C24, amended: created_date returns the date encoded in a name
\* <prefix>-YYYY.MM.DD whose prefix is a word character followed by one or
\* more word characters, dots or hyphens and whose YYYY.MM.DD is a calendar
\* date, nothing for a name that starts with "." or carries anything after the
\* date, and for every date d of the years 0 to 9999 the names index(d),
\* action_index(d) and trace_index(d) give d
C24_CreatedDateOfLongPrefix ==
    IsSome(indexName) =>
        LET name == Unwrap(indexName)
        IN /\ (/\ EncodesDate(name)
               /\ Len(name) >= 13
               /\ IsWord(name[1])
               /\ \A i \in 2..(Len(name) - 11) : IsNameChar(name[i]))
                  => createdDate = Some(EncodedDate(name))
           /\ (name[1] = "." \/ HasTextAfterDate(name)) => createdDate = None
           /\ (IsSome(indexDate) /\ Unwrap(indexDate).y \in 0..9999)
                  => createdDate = indexDate

C24_Witness ==
    /\ indexDate = Some([y |-> 2025, m |-> 11, d |-> 5])
    /\ indexName = Some(<<"t", "r", "a", "c", "e", "-", "2", "0", "2", "5", ".", "1", "1",
                          ".", "0", "5">>)
    /\ createdDate = indexDate

\* ---- C25: the poll iteration ----

\* the number of messages poll_message_groups has collected
Collected ==
    Cardinality(UNION {{messages[topic][i].offset : i \in 1..Len(messages[topic])} :
                           topic \in DOMAIN messages})

\* C25: a poll iteration that has returned its messages has reached the wait
\* time or collected poll_max_records messages, and holds no more than
\* poll_max_records messages
C25_PollsUntilLimit ==
    cpc = "join" =>
        /\ elapsed >= poll_max_wait_time \/ Collected >= poll_max_records
        /\ Collected <= poll_max_records

\* ---- C26: the schedule's loop and the shutdown signal ----

C27_ScheduledTimesIncrease ==
    /\ \A i, j \in 1..Len(jobs) :
           i < j => jobs[i].scheduled_time < jobs[j].scheduled_time
    /\ (IsSome(trigger) /\ "interval" \in DOMAIN Unwrap(trigger))
           => \A i \in 1..(Len(jobs) - 1) :
                  jobs[i + 1].scheduled_time
                      = jobs[i].scheduled_time + Unwrap(trigger).interval
    /\ spc = "next" => ScheduleNext(Unwrap(trigger), previous) - previous >= 0

\* ---- C28: who writes to an action's ActionLog ----

\* the step is one task t takes in the logging layer
StepOf(t) ==
    \/ \E ev \in Events : LogEvent(t, ev)
    \/ \E name \in SpanNames : EnterSpan(t, name)
    \/ ExitSpan(t)
    \/ \E res \in {Ok} \cup {Err(e) : e \in Exceptions} : EndAction(t, res)
    \/ TaskFinish(t)

\* task t is running the body of the action of span s
Owns(t, s) == \E k \in 1..Len(tasks[t].stack) : tasks[t].stack[k].span = s

\* task t was started with spawn_task from inside the action of span s,
\* under that span or a span nested in it
SpawnedUnder(t, s) == tasks[t].kind = "task" /\ IsUnder(tasks[t].base, s)

BatchOffsets ==
    UNION {{messages[topic][i].offset : i \in 1..Len(messages[topic])} :
               topic \in DOMAIN messages}

\* every handler task spawned for the batch has ended
HandlersEnded == \A topic \in Topics : topicTasks[topic].st \in {"none", "done"}

\* C29: in an iteration the commit is issued only once every handler task
\* spawned for the batch has ended and every message of the batch has been
\* through its handler, whether the handlers returned Ok or Err; when they
\* have all ended the commit can be issued, whatever they returned, and the
\* loop stops only at its shutdown check
C29_CommitAfterHandlers ==
    /\ [][/\ (cpc = "join" /\ cpc' = "check")
                 => HandlersEnded /\ BatchOffsets \subseteq finished
          /\ (cpc' = "stopped" /\ cpc # "stopped") => cpc = "check"]_vars
    /\ [](cpc = "join" /\ HandlersEnded
              => ENABLED (Commit(TRUE) /\ UNCHANGED exceptConsumer))

\* a batch whose handler returned Err has been committed and the loop is
\* polling again
C29_Witness ==
    /\ cpc = "poll"
    /\ position = 2 /\ committed = 2
    /\ finished = {1, 2}
    /\ \E s \in 1..Len(returned) : IsSome(returned[s]) /\ ~Unwrap(returned[s]).ok

\* ---- C30: the consumer's loop and the shutdown signal ----

\* C30: once the shutdown signal has been broadcast, MessageConsumer::start
\* ends the iteration in progress, with its handlers ended and its commit
\* issued, begins no further poll iteration, and returns Ok; and it does not
\* return Ok unless a shutdown signal was sent
C30_StopsAfterShutdown ==
    /\ signal ~> (cpc = "stopped")
    /\ [][/\ (signal /\ cpc # "poll") => cpc' # "poll"
          /\ (cpc' = "stopped" /\ cpc # "stopped")
                 => signal /\ cpc = "check" /\ HandlersEnded /\ subTasks = <<>>]_vars

\* start has returned Ok after a signal sent while the handlers of a batch
\* were running: the batch was handled and committed, and nothing was polled
\* after it
C30_Witness ==
    /\ cpc = "stopped"
    /\ position = 1 /\ committed = 1 /\ finished = {1}
    /\ Len(fetched) = 1

\* ------------------------------------- the single-message path, failing
\* a handler error whose message ErrorVisitor cannot slice
UnsliceableError == Err([severity |-> "Error", code |-> None, message |-> WideAtBoundary])

\* handle_message when the handler returned an Err that log_exception
\* cannot record: on_event panics inside start_action, the unwinding drops
\* the action's span, whose Record is emitted as it stands, and the task
\* ends with the messages it had not reached
SubEndPanic(k, res) ==
    /\ k \in 1..Len(subTasks)
    /\ subTasks[k].span # NoSpan
    /\ ~res.ok
    /\ SlicePanics(spans, subTasks[k].span, ExceptionEvent(res.e))
    /\ LET cur == subTasks[k].span
           m == subTasks[k].msgs[subTasks[k].done + 1]
           r == try_close(spans, appended, cur, now)
       IN /\ spans' = r.spans
          /\ appended' = r.appended
          /\ finished' = finished \cup {m.offset}
    /\ subTasks' = [subTasks EXCEPT ![k].span = NoSpan,
                                    ![k].msgs = SubSeq(@, 1, subTasks[k].done + 1),
                                    ![k].done = @ + 1]
    /\ UNCHANGED <<cpc, position, committed, messages, count, elapsed, topicTasks, signal,
                   fetched, wrapped, calls, created, tasks, now, ids, history, returned>>

\* MessageConsumer::start with one single-message handler whose errors
\* may carry any message
NextSinglePath ==
    \/ \E topic \in SingleTopics, key \in Keys :
           PollMessage(topic, key) /\ UNCHANGED exceptConsumer
    \/ \E d \in 1..poll_max_wait_time : PollNone(d) /\ UNCHANGED exceptConsumer
    \/ Dispatch /\ UNCHANGED exceptConsumer
    \/ \E topic \in SingleTopics : HandleMessages(topic) /\ UNCHANGED exceptConsumer
    \/ \E k \in 1..poll_max_records : SubBegin(k) /\ UNCHANGED exceptConsumer
    \/ \E k \in 1..poll_max_records, res \in HandlerResults :
           SubEnd(k, res) /\ UNCHANGED exceptConsumer
    \/ \E k \in 1..poll_max_records : SubEndPanic(k, UnsliceableError) /\ UNCHANGED exceptConsumer
    \/ \E topic \in SingleTopics : HandleJoin(topic) /\ UNCHANGED exceptConsumer
    \/ \E ok \in BOOLEAN : Commit(ok) /\ UNCHANGED exceptConsumer
    \/ CheckShutdown /\ UNCHANGED exceptConsumer

SpecSinglePath == Init /\ [][NextSinglePath]_vars

\* ---- C31: one handler call and one Record per message ----

\* the handler calls made with exactly the message at offset o
CallsWith(topic, o) ==
    {c \in 1..Len(calls) : calls[c].topic = topic /\ calls[c].offsets = <<o>>}

\* the Records appended for the action with this id
RecordsWithId(id) == {r \in 1..Len(appended) : appended[r].msg.id = id}

\* C31: on the single-message path no message is ever passed to the
\* handler twice and no handler call gets more than one message; when the
\* batch has been handled, each of its n messages has had exactly one
\* handler call, made inside a "message" action of its own that has
\* exactly one Record, so that there are n calls and n Records, whatever
\* the keys of the messages
C31_EachMessageHandledOnce ==
    \A topic \in SingleTopics :
        LET ms == topicTasks[topic].msgs
        IN /\ \A c \in 1..Len(calls) : calls[c].topic = topic => Len(calls[c].offsets) = 1
           /\ \A o \in 1..MaxMessages : Cardinality(CallsWith(topic, o)) <= 1
           /\ topicTasks[topic].st = "done" =>
                  /\ Cardinality(HandlerCalls(topic, ms)) = Len(ms)
                  /\ \A k \in 1..Len(ms) :
                         /\ Cardinality(CallsWith(topic, ms[k].offset)) = 1
                         /\ \A c \in CallsWith(topic, ms[k].offset) :
                                /\ \E a \in MessageActions(topic, ms) :
                                       /\ created[a].action_id = calls[c].action_id
                                       /\ created[a].offsets = <<ms[k].offset>>
                                /\ Cardinality(RecordsWithId(calls[c].action_id)) = 1
                                /\ \A r \in RecordsWithId(calls[c].action_id) :
                                       appended[r].msg.action = "message"
                                /\ \A d \in 1..Len(calls) :
                                       calls[d].action_id = calls[c].action_id => d = c

\* ---- C32: one task per key and per unkeyed message ----

\* the key whose handler never returns
StuckKey == Some("A")

\* task k is the task of the stuck key
Stuck(k) == subTasks[k].msgs[1].key = StuckKey

\* MessageConsumer::start with a single-message handler that never returns
\* for the messages of one key
StuckPollStep ==
    \/ \E topic \in SingleTopics, key \in Keys :
           PollMessage(topic, key) /\ UNCHANGED exceptConsumer
    \/ \E d \in 1..poll_max_wait_time : PollNone(d) /\ UNCHANGED exceptConsumer
    \/ Dispatch /\ UNCHANGED exceptConsumer
    \/ \E topic \in SingleTopics : HandleMessages(topic) /\ UNCHANGED exceptConsumer

StuckBeginStep == \E k \in 1..poll_max_records : SubBegin(k) /\ UNCHANGED exceptConsumer

StuckEndStep ==
    \/ \E k \in 1..poll_max_records, res \in HandlerResults :
           k \in 1..Len(subTasks) /\ ~Stuck(k) /\ SubEnd(k, res) /\ UNCHANGED exceptConsumer
    \/ \E k \in 1..poll_max_records :
           /\ k \in 1..Len(subTasks) /\ ~Stuck(k)
           /\ SubEndPanic(k, UnsliceableError) /\ UNCHANGED exceptConsumer

StuckLoopStep ==
    \/ \E topic \in SingleTopics : HandleJoin(topic) /\ UNCHANGED exceptConsumer
    \/ \E ok \in BOOLEAN : Commit(ok) /\ UNCHANGED exceptConsumer
    \/ CheckShutdown /\ UNCHANGED exceptConsumer

NextStuckKey == StuckPollStep \/ StuckBeginStep \/ StuckEndStep \/ StuckLoopStep

\* a task can start its next message: the guard of SubBegin
CanBeginTask ==
    \E k \in 1..Len(subTasks) :
        subTasks[k].span = NoSpan /\ subTasks[k].done < Len(subTasks[k].msgs)

\* the runtime polls every task that can go on, and the handlers of the
\* other keys return
SpecStuckKey ==
    /\ Init
    /\ [][NextStuckKey]_vars
    /\ WF_vars(StuckPollStep)
    /\ WF_vars(StuckEndStep)
    /\ WF_vars(StuckLoopStep)
    /\ ([]<>(~CanBeginTask) \/ []<><<StuckBeginStep>>_vars)

\* the tasks of a batch are one per unkeyed message and one per distinct
\* key, each holding only messages of its key
OneTaskPerKey ==
    \A topic \in SingleTopics :
        topicTasks[topic].st = "join" =>
            LET ms == topicTasks[topic].msgs
            IN /\ Len(subTasks) = Cardinality(KeysOf(ms)) + Cardinality(Unkeyed(ms))
               /\ \A k \in 1..Len(subTasks) :
                      /\ \A i \in 1..Len(subTasks[k].msgs) :
                             subTasks[k].msgs[i].key = subTasks[k].msgs[1].key
                      /\ ~IsSome(subTasks[k].msgs[1].key) => Len(subTasks[k].msgs) = 1
                      /\ \A j \in 1..Len(subTasks) :
                             j # k /\ IsSome(subTasks[k].msgs[1].key)
                                 => subTasks[j].msgs[1].key # subTasks[k].msgs[1].key

\* every task but that of the stuck key has gone through its messages
OthersEnded ==
    \A k \in 1..Len(subTasks) :
        ~Stuck(k) => subTasks[k].span = NoSpan /\ subTasks[k].done = Len(subTasks[k].msgs)

\* C32: the tasks handle_messages spawns are one per unkeyed message and
\* one per distinct key; and when the handler never returns for the
\* messages of one key, every task of another key and of an unkeyed
\* message of the batch still goes through all its messages
C32_TasksIndependent ==
    /\ []OneTaskPerKey
    /\ \A topic \in SingleTopics :
           (topicTasks[topic].st = "join") ~> (topicTasks[topic].st = "join" /\ OthersEnded)

\* the handler of key A has not returned, and the messages of key B and
\* the unkeyed one, polled after it, have been handled
C32_Witness ==
    /\ Len(subTasks) = 3
    /\ \E k \in 1..3 : Stuck(k) /\ subTasks[k].span # NoSpan /\ subTasks[k].msgs[1].offset = 1
    /\ OthersEnded
    /\ finished = {2, 3}

\* ---- C33: a handler failure inside a per-key chain ----

\* the handler call of task k returns an Err
FailureStep(k) ==
    \/ \E res \in HandlerResults : ~res.ok /\ SubEnd(k, res)
    \/ SubEndPanic(k, UnsliceableError)

\* the handler calls of the batch's messages with the key of ms[i], as
\* offsets in call order
CallOrder(topic, ms, i) ==
    LET mine == {ms[j].offset : j \in {j \in 1..Len(ms) : ms[j].key = ms[i].key}}
        made == SelectSeq(calls, LAMBDA c : c.topic = topic /\ c.offsets[1] \in mine)
    IN [c \in 1..Len(made) |-> made[c].offsets[1]]

\* the offsets of the batch's messages with the key of ms[i], in batch order
KeyOrder(ms, i) == OffsetsOf(SelectSeq(ms, LAMBDA m : m.key = ms[i].key))

\* C33: when the handler returns an Err for a message of a per-key
\* chain, the message's action is recorded with result WARN or ERROR and
\* the task keeps the messages that follow, and when the batch has been
\* handled the messages of every key have been handled, in batch order
C33_ChainSurvivesFailure ==
    /\ [][\A k \in 1..poll_max_records :
              (/\ k \in 1..Len(subTasks)
               /\ IsSome(subTasks[k].msgs[1].key)
               /\ FailureStep(k)) =>
                  /\ Len(appended') = Len(appended) + 1
                  /\ appended'[Len(appended')].msg.result \in {"WARN", "ERROR"}
                  /\ subTasks'[k].msgs = subTasks[k].msgs]_vars
    /\ [](\A topic \in SingleTopics :
              topicTasks[topic].st = "done" =>
                  LET ms == topicTasks[topic].msgs
                  IN \A i \in 1..Len(ms) :
                         IsSome(ms[i].key) => CallOrder(topic, ms, i) = KeyOrder(ms, i))

\* ---- C34: the handlers of successive batches ----

\* the handler calls that have not returned
OpenCalls == {c \in 1..Len(calls) : ~(Range(calls[c].offsets) \subseteq finished)}

\* the key of the message polled at offset o
KeyAt(o) == fetched[o].key

\* C34: a handler call that has not returned is for messages of the batch
\* in hand, and none is left when the loop is past its join, so that every
\* handler of a batch has finished before the next batch is polled; and
\* the handler calls for the messages of one key of a single-message topic
\* are made in offset order, each after the one before it has returned,
\* within a batch and across batches
C34_BatchesInTurn ==
    /\ \A c \in OpenCalls : Range(calls[c].offsets) \subseteq BatchOffsets
    /\ cpc # "join" => OpenCalls = {}
    /\ \A c, e \in 1..Len(calls) :
           (/\ c < e
            /\ calls[c].topic = calls[e].topic
            /\ calls[c].topic \in SingleTopics
            /\ IsSome(KeyAt(calls[c].offsets[1]))
            /\ KeyAt(calls[c].offsets[1]) = KeyAt(calls[e].offsets[1]))
               => /\ calls[c].offsets[1] < calls[e].offsets[1]
                  /\ c \notin OpenCalls

\* two batches of one message each with the same key: the second message
\* is in its handler, the first was handled and committed
C34_Witness ==
    /\ cpc = "join"
    /\ committed = 1
    /\ BatchOffsets = {2}
    /\ Len(calls) = 2
    /\ KeyAt(1) = Some("A") /\ KeyAt(2) = Some("A")
    /\ OpenCalls = {2}

\* ---- C35: a failed poll ----

\* C35: a failed poll takes the loop to its sleep with nothing dispatched,
\* committed or recorded; the sleep ends at the shutdown check, which is
\* the only place where the loop stops, and only on a signal: without one
\* the loop polls again, with an empty batch; and neither the sleep nor
\* the check can block
C35_PollErrorRetried ==
    /\ [][/\ (cpc = "poll" /\ cpc' = "sleep")
                 => /\ committed' = committed
                    /\ messages' = <<>>
                    /\ UNCHANGED <<topicTasks, subTasks, wrapped, calls, appended>>
          /\ (cpc' = "sleep" /\ cpc # "sleep") => cpc = "poll"
          /\ (cpc = "sleep" /\ cpc' # "sleep")
                 => cpc' = "check" /\ committed' = committed
          /\ (cpc = "check" /\ cpc' # "check")
                 => /\ cpc' = (IF signal THEN "stopped" ELSE "poll")
                    /\ committed' = committed
                    /\ cpc' = "poll" => messages' = <<>> /\ count' = 1 /\ elapsed' = 0
          /\ (cpc' = "stopped" /\ cpc # "stopped") => cpc = "check" /\ signal]_vars
    /\ [](cpc = "sleep" => ENABLED (Sleep /\ UNCHANGED exceptConsumer))
    /\ [](cpc = "check" => ENABLED (CheckShutdown /\ UNCHANGED exceptConsumer))

\* a poll failed after one message had been polled, and the loop is
\* polling again: nothing was dispatched or committed
C35_Witness ==
    /\ cpc = "poll"
    /\ position = 1
    /\ count = 1
    /\ messages = <<>>
    /\ wrapped = {}
    /\ committed = 0

\* ---- C36: a firing and the jobs still running ----

\* C36: whatever jobs are still running, the loop computes the next
\* scheduled time as soon as it is at the head of the loop, waits from
\* then for the time between the two scheduled times, and fires as soon
\* as that wait is over; a firing only adds a spawned job and goes back to
\* the head of the loop
C36_FiringNotDelayed ==
    /\ [](spc = "next" /\ ScheduleNext(Unwrap(trigger), previous) >= previous
              => ENABLED (SchedNext /\ UNCHANGED exceptScheduler))
    /\ [](spc = "select" /\ now >= deadline
              => ENABLED (SchedFire /\ UNCHANGED exceptScheduler))
    /\ [][/\ (spc = "next" /\ spc' = "select")
                 => /\ previous' = ScheduleNext(Unwrap(trigger), previous)
                    /\ deadline' = now + (previous' - previous)
                    /\ jobs' = jobs
          /\ (spc = "select" /\ spc' = "next")
                 => /\ Len(jobs') = Len(jobs) + 1
                    /\ jobs'[Len(jobs')].st = "spawned"
                    /\ jobs'[Len(jobs')].scheduled_time = previous
                    /\ \A j \in 1..Len(jobs) : jobs'[j] = jobs[j]]_vars

\* two firings of the job are running at the same time, and the loop has
\* fired a third
C36_Witness ==
    /\ Len(jobs) = 3
    /\ jobs[1].st = "running"
    /\ jobs[2].st = "running"
    /\ jobs[1].scheduled_time < jobs[2].scheduled_time
    /\ jobs[3].st = "spawned"

\* --------------------------------------- the trace of one task's actions
\* one task that runs an action, nests an action or a span in it, with the
\* clock running, and logs events of every level, "context" and "stats"
\* events among them
MaxTraceSpans == 2
MaxTraceEvents == 2

TraceEvents ==
    {[level |-> "TRACE", msg |-> Boom, fields |-> <<>>],
     [level |-> "TRACE", msg |-> ContextText,
      fields |-> <<[name |-> "k", type |-> "str", value |-> "v"]>>],
     [level |-> "TRACE", msg |-> StatsText,
      fields |-> <<[name |-> "n", type |-> "i64", value |-> 3]>>],
     [level |-> "DEBUG", msg |-> Boom, fields |-> <<>>],
     ContextEvent(<<[name |-> "k", type |-> "str", value |-> "v"]>>),
     StatsEvent("n", "i64", 3),
     [level |-> "WARN", msg |-> Bang, fields |-> <<>>]}

\* the clock readings tried, in seconds: either side of one minute and of
\* 100 minutes
TraceInstants == {0, 59, 60, 5999, 6000}

\* an event macro in the task, noted with the span it was emitted under
TraceEmit(ev) ==
    /\ Len(emitted) < MaxTraceEvents
    /\ LogEvent(1, ev)
    /\ emitted' = Append(emitted, [ev |-> ev, span |-> CurrentSpan(1)])

\* an event macro whose on_event panics
TraceEmitPanic(ev) ==
    /\ Len(emitted) < MaxTraceEvents
    /\ LogEventPanic(1, ev)
    /\ emitted' = Append(emitted, [ev |-> ev, span |-> CurrentSpan(1)])

\* time passes, up to a later reading
TraceTick(t) ==
    /\ t > now
    /\ now' = t
    /\ UNCHANGED <<spans, tasks, appended, ids, history, returned, emitted>>

NextTrace ==
    \/ /\ Len(spans) < MaxTraceSpans
       /\ spans = <<>> \/ tasks[1].stack # <<>>
       /\ StartAction(1) /\ UNCHANGED <<emitted, exceptTrace>>
    \/ \E res \in {Ok, Err([severity |-> "Error", code |-> None, message |-> Boom])} :
           EndAction(1, res) /\ UNCHANGED <<emitted, exceptTrace>>
    \/ Len(spans) < MaxTraceSpans /\ EnterSpan(1, "db") /\ UNCHANGED <<emitted, exceptTrace>>
    \/ ExitSpan(1) /\ UNCHANGED <<emitted, exceptTrace>>
    \/ \E ev \in TraceEvents : TraceEmit(ev) /\ UNCHANGED exceptTrace
    \/ TraceEmitPanic([level |-> "ERROR", msg |-> WideAtBoundary, fields |-> <<>>])
           /\ UNCHANGED exceptTrace
    \/ \E t \in TraceInstants : TraceTick(t) /\ UNCHANGED exceptTrace

SpecTrace == Init /\ [][NextTrace]_vars

\* ---- C37: the trace lines of the events of an action ----

\* the span of the innermost action whose body task t is running
InnermostAction(t) ==
    IF ActionFramesOf(t) = <<>> THEN NoSpan
    ELSE ActionFramesOf(t)[Len(ActionFramesOf(t))].span

\* the event emitted by the step
Emitted == emitted'[Len(emitted')].ev

\* the lines of the ActionLog of action span s
LinesOf(s) == Unwrap(spans[s].log).logs

\* the step emits an event inside an action of the task, and the macro
\* returns
EmitsInAction ==
    /\ Len(emitted') > Len(emitted)
    /\ InnermostAction(1) # NoSpan
    /\ tasks'[1].st = "run"

\* the step adds exactly one line, at the end, to the lines of action s
AddsOneLine(s) ==
    /\ Len(LinesAfter(s)) = Len(LinesOf(s)) + 1
    /\ SubSeq(LinesAfter(s), 1, Len(LinesOf(s))) = LinesOf(s)

ElapsedPrefixMutSecondsFirst(total_seconds) ==
    Padded(total_seconds % 60, 2) \o <<":">> \o Padded(total_seconds \div 60, 2)
    \o <<".">> \o Padded(0, 9)

\* on_event: write!(log, "{minutes:02}:{seconds:02}.{nanos:09} "), for an
\* elapsed time of whole seconds
ElapsedPrefix(total_seconds) ==
    Padded(total_seconds \div 60, 2) \o <<":">> \o Padded(total_seconds % 60, 2)
    \o <<".">> \o Padded(0, 9)

PlainLine(head) == [head |-> head, prefix |-> None, elapsed |-> None]

\* the text lines an entry of logs contributes to logs.join("\n"): the
\* header pushed by on_new_span, the line of an event and the lines of its
\* backtrace field, the lines of a span, the footer pushed by close_action
TextLines(entry) ==
    CASE entry.kind = "begin" ->
             <<PlainLine("=== action begin ==="), PlainLine("type="), PlainLine("id="),
               PlainLine("date="), PlainLine("thread=")>>
      [] entry.kind = "ref_id" -> <<PlainLine("ref_id=")>>
      [] entry.kind = "span_open" -> <<PlainLine("[span:] >>>")>>
      [] entry.kind = "span_close" -> <<PlainLine("[span:] elapsed= <<<")>>
      [] entry.kind = "event" ->
             <<[head |-> "event", prefix |-> Some(ElapsedPrefix(entry.elapsed)),
                elapsed |-> Some(entry.elapsed)]>>
             \o (IF \E i \in 1..Len(entry.fields) : entry.fields[i].name = "backtrace"
                 THEN <<PlainLine("backtrace")>> ELSE <<>>)
      [] entry.kind = "end" -> <<PlainLine("elapsed="), PlainLine("=== action end ===")>>

\* the lines of a trace, in order
RECURSIVE TraceText(_)
TraceText(logs) ==
    IF logs = <<>> THEN <<>> ELSE TextLines(Head(logs)) \o TraceText(Tail(logs))

\* the place of a character of a prefix in the order of characters
CharCode(c) == IF c = "." THEN 46 ELSE IF c = ":" THEN 58 ELSE 48 + DigitValue(c)

\* a <= b in lexicographic order
RECURSIVE LexLeq(_, _)
LexLeq(a, b) ==
    IF a = <<>> THEN TRUE
    ELSE IF b = <<>> THEN FALSE
    ELSE IF CharCode(Head(a)) # CharCode(Head(b)) THEN CharCode(Head(a)) < CharCode(Head(b))
    ELSE LexLeq(Tail(a), Tail(b))

\* the Records whose result is not OK
FailedRecords == {r \in 1..Len(appended) : appended[r].msg.result # "OK"}

\* C38 as stated: the trace of a Record whose result is not OK begins
\* with "=== action begin ===" and ends with "=== action end ===", every
\* line between the two starts with an elapsed prefix, and the prefixes
\* never decrease in lexicographic order
C38_EveryLinePrefixed ==
    \A r \in FailedRecords :
        LET ls == TraceText(Unwrap(appended[r].msg.trace))
        IN /\ ls[1].head = "=== action begin ==="
           /\ ls[Len(ls)].head = "=== action end ==="
           /\ \A i \in 2..(Len(ls) - 1) : IsSome(ls[i].prefix)
           /\ \A i, j \in 2..(Len(ls) - 1) :
                  i < j => LexLeq(Unwrap(ls[i].prefix), Unwrap(ls[j].prefix))

\* C38, amended: the trace of a Record whose result is not OK begins with
\* "=== action begin ===" and ends with "=== action end ==="; between the
\* two, the first line of every event starts with its elapsed prefix, and
\* the other lines (the header's, those of spans and backtraces, the
\* footer's elapsed) have none; the elapsed times of the prefixes never
\* decrease, nor do the prefixes in lexicographic order up to 100 minutes
C38_EventLinesPrefixed ==
    \A r \in FailedRecords :
        LET ls == TraceText(Unwrap(appended[r].msg.trace))
        IN /\ ls[1].head = "=== action begin ==="
           /\ ls[Len(ls)].head = "=== action end ==="
           /\ \A i \in 2..(Len(ls) - 1) :
                  /\ IsSome(ls[i].prefix) <=> ls[i].head = "event"
                  /\ ls[i].head \in {"event", "type=", "id=", "date=", "thread=", "ref_id=",
                                     "[span:] >>>", "[span:] elapsed= <<<", "backtrace",
                                     "elapsed="}
           /\ \A i, j \in 2..(Len(ls) - 1) :
                  (i < j /\ IsSome(ls[i].prefix) /\ IsSome(ls[j].prefix)) =>
                      /\ Unwrap(ls[i].elapsed) <= Unwrap(ls[j].elapsed)
                      /\ Unwrap(ls[j].elapsed) < 100 * 60
                             => LexLeq(Unwrap(ls[i].prefix), Unwrap(ls[j].prefix))

\* a Record with result ERROR whose trace has the lines of a span and of
\* two events, emitted 59 seconds and 99 minutes 59 seconds after the start
C38_Witness ==
    \E r \in FailedRecords :
        LET ls == TraceText(Unwrap(appended[r].msg.trace))
        IN /\ \E i \in 1..Len(ls) : ls[i].head = "[span:] >>>"
           /\ \E i, j \in 1..Len(ls) :
                  /\ i < j
                  /\ ls[i].prefix = Some(<<"0", "0", ":", "5", "9", ".",
                                           "0", "0", "0", "0", "0", "0", "0", "0", "0">>)
                  /\ ls[j].prefix = Some(<<"9", "9", ":", "5", "9", ".",
                                           "0", "0", "0", "0", "0", "0", "0", "0", "0">>)

\* ---- C39: events at level TRACE ----

\* C39: an event at level TRACE, whatever its message and fields, leaves
\* every ActionLog as it is (lines, result, error fields, context, stats)
\* and emits no Record
C39_TraceChangesNothing ==
    [][(Len(emitted') > Len(emitted) /\ Emitted.level = "TRACE")
           => UNCHANGED <<spans, appended>>]_vars

\* inside an action, a "stats" event at DEBUG and then the same event at
\* TRACE: the counter holds the first value only, and the action has the
\* line of the first event only
C39_Witness ==
    /\ Len(emitted) = 2
    /\ emitted[1].ev = StatsEvent("n", "i64", 3)
    /\ emitted[2].ev.level = "TRACE" /\ emitted[2].ev.msg = StatsText
    /\ emitted[2].span = 1
    /\ IsSome(spans[1].log)
    /\ Unwrap(spans[1].log).stats = <<[k |-> "n", v |-> 3]>>
    /\ Len(LinesOf(1)) = 2

\* ---- C40: the stats counters of an action ----

\* the value of counter k in the stats of an ActionLog, 0 when it has none
CounterOf(al, k) ==
    LET at == {i \in 1..Len(al.stats) : al.stats[i].k = k}
    IN IF at = {} THEN 0 ELSE al.stats[CHOOSE i \in at : TRUE].v

\* C40: while an action is open no event makes any of its stats counters
\* smaller, and no "stats" event makes on_event panic on the addition,
\* whatever the numeric value of its field
C40_CountersNeverDecrease ==
    [][/\ \A s \in 1..Len(spans) :
              (IsSome(spans[s].log) /\ IsSome(spans'[s].log)) =>
                  \A i \in 1..Len(Unwrap(spans[s].log).stats) :
                      CounterOf(Unwrap(spans'[s].log), Unwrap(spans[s].log).stats[i].k)
                          >= Unwrap(spans[s].log).stats[i].v
       /\ ~(\E ev \in FieldEvents :
                AddOverflows(spans, CurrentSpan(1), ev, now) /\ LogEventPanic(1, ev))]_vars

====
